---- MODULE Spec2Model ----
(***************************************************************************)
(* gh-poi: classification of local branches as deletable, from poi.go.     *)
(* GetRemote, GetBranches and DeleteBranches are modelled one connector    *)
(* call at a time; the helpers they call are operators.                    *)
(***************************************************************************)
EXTENDS Integers, Sequences, FiniteSets, TLC

VARIABLES
    pc,                 \* the connector call or loop the program is about to run
    remote,             \* the Remote returned by GetRemote
    repoNames,          \* GetBranches: repoNames
    defaultBranchName,  \* GetBranches: defaultBranchName
    dryRun,             \* GetBranches: dryRun
    branches,           \* the []shared.Branch of the running operation
    results,            \* results of the loop over branches in progress
    curBranch,          \* applyCommits: the loop variable branch
    idx,                \* applyPullRequest: position of its first loop
    oids,               \* trimBranch: oids
    trimmed,            \* trimBranch: results
    childNames,         \* trimBranch: childNames
    queries,            \* loadBranches: blocks of getQueryHashes not yet sent
    prs,                \* loadBranches: prs
    prNumbers,          \* applyPullRequest: prNumbers
    uncommittedChanges, \* GetBranches: uncommittedChanges
    outcome,            \* what the last operation returned: none, ok or error
    returned,           \* the branch list the last operation returned
    call                \* history: the last connector call and how it ended

vars == <<pc, remote, repoNames, defaultBranchName, dryRun, branches, results,
          curBranch, idx, oids, trimmed, childNames, queries, prs, prNumbers,
          uncommittedChanges, outcome, returned, call>>

----------------------------------------------------------------------------
(* Bounds of the model *)

MaxBranches == 2    \* most branches the branch listing holds
MaxLog == 2         \* longest commit log a GetLog call returns
MaxPRs == 2         \* most pull requests one search response holds

(* Domains the connector's answers are drawn from *)

DetachedName == "(HEAD detached at a97e963)"
LocalNames == {"issue1", "main"}
(* The commits of the repository, newest first: a log is a run of them *)
History == <<"b8a2645", "a97e963", "6ebe3d3">>
Oids == {History[i] : i \in 1..Len(History)}
PRNumbers == {1, 2}

(* shared.BranchState and shared.PullRequestState *)
Unknown == "Unknown"
NotDeletable == "NotDeletable"
Deletable == "Deletable"
Deleted == "Deleted"
Closed == "Closed"
Merged == "Merged"
Open == "Open"

----------------------------------------------------------------------------
(* Sequence helpers *)

Range(s) == {s[i] : i \in 1..Len(s)}

RECURSIVE SeqsUpTo(_, _)
SeqsUpTo(S, n) ==
    IF n = 0 THEN {<<>>}
    ELSE LET shorter == SeqsUpTo(S, n - 1)
         IN  shorter \cup {Append(s, x) : s \in {t \in shorter : Len(t) = n - 1}, x \in S}

(* Byte order of the branch names, as Go's < on strings gives it *)
NameRank(name) ==
    CASE name = DetachedName -> 0
      [] name = "issue1" -> 1
      [] name = "issue2" -> 2
      [] name = "main" -> 3
      [] OTHER -> 4

(* sort.Slice on a slice whose elements have the integer keys key[i]; the
   keys of the slices sorted here are distinct, so stability does not matter *)
RECURSIVE InsertSorted(_, _, _)
InsertSorted(x, k, s) ==
    IF s = <<>> THEN <<x>>
    ELSE IF k[x] < k[Head(s)] THEN <<x>> \o s
    ELSE <<Head(s)>> \o InsertSorted(x, k, Tail(s))

RECURSIVE SortIndices(_, _)
SortIndices(n, k) ==
    IF n = 0 THEN <<>> ELSE InsertSorted(n, k, SortIndices(n - 1, k))

SortSlice(s, k) ==
    LET order == SortIndices(Len(s), k)
    IN  [i \in 1..Len(s) |-> s[order[i]]]

----------------------------------------------------------------------------
(* Remote Resolver *)

github == <<"github", "com">>
localhost == <<"github", "localhost">>

(* strings.ToLower on one label of a host name *)
ToLower(label) ==
    CASE label = "GitHub" -> "github"
      [] label = "SSH" -> "ssh"
      [] OTHER -> label

(* strings.HasSuffix(hostname, "." + domain): host names are label sequences *)
HasSuffix(hostname, domain) ==
    /\ Len(hostname) > Len(domain)
    /\ SubSeq(hostname, Len(hostname) - Len(domain) + 1, Len(hostname)) = domain

normalizeHostname(host) ==
    LET hostname == [i \in 1..Len(host) |-> ToLower(host[i])]
    IN  IF HasSuffix(hostname, github) THEN github
        ELSE IF HasSuffix(hostname, localhost) THEN localhost
        ELSE hostname

(* A line of the remote listing either matches the pattern, giving the three
   groups, or is skipped *)
toRemotes(remoteNames) ==
    LET matching == SelectSeq(remoteNames, LAMBDA line : line.matches)
    IN  [i \in 1..Len(matching) |->
            [Name |-> matching[i].Name, Hostname |-> matching[i].Hostname,
             RepoName |-> matching[i].RepoName]]

NoRemote == [Name |-> "", Hostname |-> <<>>, RepoName |-> ""]

(* The remote named origin, else the first one; callers test for no remotes *)
getPrimaryRemote(remotes) ==
    IF \E i \in 1..Len(remotes) : remotes[i].Name = "origin"
    THEN remotes[CHOOSE i \in 1..Len(remotes) :
                    /\ remotes[i].Name = "origin"
                    /\ \A j \in 1..(i - 1) : remotes[j].Name # "origin"]
    ELSE remotes[1]

(* findHostname reads kv[1] of the first line whose key is hostname: a line
   with the key only, a record without the field value, has no kv[1] *)
RECURSIVE hostnameOutOfRange(_)
hostnameOutOfRange(params) ==
    IF params = <<>> THEN FALSE
    ELSE IF Head(params).key = "hostname" THEN "value" \notin DOMAIN Head(params)
    ELSE hostnameOutOfRange(Tail(params))

(* An ssh config line is strings.Split(param, " "): kv[0] is the key, and
   kv[1], when present, the host name it gives *)
RECURSIVE findHostname(_, _)
findHostname(params, defaultName) ==
    IF params = <<>> THEN defaultName
    ELSE IF Head(params).key = "hostname" THEN Head(params).value
    ELSE findHostname(Tail(params), defaultName)

----------------------------------------------------------------------------
(* Branch Loader *)

NewBranch ==
    [Head |-> FALSE, Name |-> "", IsMerged |-> FALSE, IsProtected |-> FALSE,
     RemoteHeadOid |-> "", Commits |-> <<>>, PullRequests |-> <<>>,
     State |-> Unknown]

(* toBranch reads splitNames[1]: a line without the colon splits into one
   part only *)
branchOutOfRange(branchNames) ==
    \E i \in 1..Len(branchNames) : Len(branchNames[i]) < 2

(* A line of the branch listing is strings.Split(branchName, ":") *)
toBranch(branchNames) ==
    [i \in 1..Len(branchNames) |->
        [NewBranch EXCEPT !.Head = (branchNames[i][1] = "*"),
                          !.Name = branchNames[i][2]]]

(* shared.Branch.IsDetached: the synthetic name of a detached head *)
IsDetached(branch) == branch.Name = DetachedName

nameExists(name, names) == \E i \in 1..Len(names) : names[i] = name

applyMerged(bs, mergedNames) ==
    [i \in 1..Len(bs) |->
        [bs[i] EXCEPT !.IsMerged = nameExists(bs[i].Name, mergedNames)]]

branchNameExists(branchName, bs) ==
    \E i \in 1..Len(bs) : bs[i].Name = branchName

(* A ref name is held as the part the pattern ^refs/(heads|remotes/<remote>)/
   matches (empty when it does not match, as for a tag) and the rest;
   ReplaceAllString leaves the rest *)
extractBranchNames(refNames) ==
    [i \in 1..Len(refNames) |-> refNames[i].rest]

----------------------------------------------------------------------------
(* PR Fetcher / Matcher *)

(* strconv.Atoi on a run of decimal digits *)
RECURSIVE Atoi(_)
Atoi(digits) ==
    IF digits = <<>> THEN 0
    ELSE 10 * Atoi(SubSeq(digits, 1, Len(digits) - 1)) + digits[Len(digits)]

(* A merge config value is held as the part before the digits, the digits the
   pattern ^refs/pull/(\d+) captures, and whatever follows *)
getPRNumber(mergeConfig) ==
    IF mergeConfig.prefix = "refs/pull/" /\ Len(mergeConfig.digits) > 0
    THEN Atoi(mergeConfig.digits)
    ELSE 0

(* prNumbers[branchName] of a Go map: the zero value when the key is absent *)
MapGet(m, k) == IF k \in DOMAIN m THEN m[k] ELSE 0

prNumberExists(numbers, prNumber) == \E k \in DOMAIN numbers : numbers[k] = prNumber

(* prExists comparing whole records instead of numbers *)
prExists_SameRecord(matched, pr) == \E i \in 1..Len(matched) : matched[i] = pr

prExists(matched, pr) == \E i \in 1..Len(matched) : matched[i].Number = pr.Number

(* The loop of findMatchedPullRequest with the test of the name first: a
   pull request named like the branch is attached whatever the numbers say *)
RECURSIVE matchLoop_NameFirst(_, _, _, _)
matchLoop_NameFirst(branchName, rest, numbers, matched) ==
    IF rest = <<>> THEN matched
    ELSE LET pr == Head(rest)
             next ==
                 IF prExists(matched, pr) THEN matched
                 ELSE IF pr.Name = branchName THEN Append(matched, pr)
                 ELSE IF pr.Number = MapGet(numbers, branchName)
                      THEN Append(matched, pr)
                 ELSE matched
         IN  matchLoop_NameFirst(branchName, Tail(rest), numbers, next)

RECURSIVE matchLoop(_, _, _, _)
matchLoop(branchName, rest, numbers, matched) ==
    IF rest = <<>> THEN matched
    ELSE LET pr == Head(rest)
             next ==
                 IF prExists(matched, pr) THEN matched
                 ELSE IF prNumberExists(numbers, pr.Number)
                      THEN IF pr.Number = MapGet(numbers, branchName)
                           THEN Append(matched, pr) ELSE matched
                 ELSE IF pr.Name = branchName THEN Append(matched, pr)
                 ELSE matched
         IN  matchLoop(branchName, Tail(rest), numbers, next)

findMatchedPullRequest(branchName, fetched, numbers) ==
    matchLoop(branchName, fetched, numbers, <<>>)

(* The second loop without its sort: the matches in the order fetched *)
attachPullRequests_Unsorted(bs, fetched, numbers) ==
    [i \in 1..Len(bs) |->
        [bs[i] EXCEPT !.PullRequests =
            findMatchedPullRequest(bs[i].Name, fetched, numbers)]]

(* The second loop of applyPullRequest *)
attachPullRequests(bs, fetched, numbers) ==
    [i \in 1..Len(bs) |->
        LET matched == findMatchedPullRequest(bs[i].Name, fetched, numbers)
        IN  [bs[i] EXCEPT !.PullRequests =
                SortSlice(matched, [j \in 1..Len(matched) |-> matched[j].Number])]]

toPullRequestState(state) ==
    CASE state = "CLOSED" -> Closed
      [] state = "MERGED" -> Merged
      [] state = "OPEN" -> Open
      [] OTHER -> "ErrNotFound"

(* The edges of a well-formed search response *)
toPullRequests(edges) ==
    [i \in 1..Len(edges) |->
        [Name |-> edges[i].headRefName,
         State |-> toPullRequestState(edges[i].state),
         Number |-> edges[i].number,
         Commits |-> edges[i].commits]]

hasUnknownState(edges) ==
    \E i \in 1..Len(edges) : toPullRequestState(edges[i].state) = "ErrNotFound"

----------------------------------------------------------------------------
(* Classification Engine *)

(* toUncommittedChange reads change[0], change[1] and change[3:]: the line
   must have three characters *)
changeOutOfRange(changes) ==
    \E i \in 1..Len(changes) : Len(changes[i]) < 3

(* A status line is its characters: X, Y, a blank and the path *)
toUncommittedChange(changes) ==
    [i \in 1..Len(changes) |->
        [X |-> changes[i][1], Y |-> changes[i][2],
         Path |-> SubSeq(changes[i], 4, Len(changes[i]))]]

IsUntracked(uc) == uc.Y = "?"

isFullyMerged_Oldest(branch, pr) ==
    IF pr.State # Merged \/ Len(branch.Commits) = 0 THEN FALSE
    ELSE LET localHeadOid == branch.Commits[Len(branch.Commits)]
         IN  \E i \in 1..Len(pr.Commits) : pr.Commits[i] = localHeadOid

(* The test against the remote head where it is known *)
isFullyMerged_RemoteHead(branch, pr) ==
    IF pr.State # Merged \/ Len(branch.Commits) = 0 THEN FALSE
    ELSE LET localHeadOid == IF branch.RemoteHeadOid # ""
                             THEN branch.RemoteHeadOid ELSE branch.Commits[1]
         IN  \E i \in 1..Len(pr.Commits) : pr.Commits[i] = localHeadOid

isFullyMerged_LabelOnly(branch, pr) == pr.State = Merged

isFullyMerged(branch, pr) ==
    IF pr.State # Merged \/ Len(branch.Commits) = 0 THEN FALSE
    ELSE LET localHeadOid == branch.Commits[1]
         IN  \E i \in 1..Len(pr.Commits) : pr.Commits[i] = localHeadOid

(* The loop asking that every pull request be fully merged, not one *)
RECURSIVE scanPullRequests_AllMerged(_, _, _)
scanPullRequests_AllMerged(branch, i, cnt) ==
    IF i > Len(branch.PullRequests)
    THEN IF cnt < Len(branch.PullRequests) THEN NotDeletable ELSE Deletable
    ELSE IF branch.PullRequests[i].State = Open THEN NotDeletable
    ELSE scanPullRequests_AllMerged(branch, i + 1,
            IF isFullyMerged(branch, branch.PullRequests[i]) THEN cnt + 1 ELSE cnt)

RECURSIVE scanPullRequests_OpenLast(_, _, _)
scanPullRequests_OpenLast(branch, i, cnt) ==
    IF i > Len(branch.PullRequests)
    THEN IF cnt = 0 THEN NotDeletable ELSE Deletable
    ELSE IF branch.PullRequests[i].State = Open /\ cnt = 0 THEN NotDeletable
    ELSE scanPullRequests_OpenLast(branch, i + 1,
            IF isFullyMerged(branch, branch.PullRequests[i]) THEN cnt + 1 ELSE cnt)

(* The loop of getDeleteStatus over branch.PullRequests, from index i with
   fullyMergedCnt = cnt *)
RECURSIVE scanPullRequests(_, _, _)
scanPullRequests(branch, i, cnt) ==
    IF i > Len(branch.PullRequests)
    THEN IF cnt = 0 THEN NotDeletable ELSE Deletable
    ELSE IF branch.PullRequests[i].State = Open THEN NotDeletable
    ELSE scanPullRequests(branch, i + 1,
            IF isFullyMerged(branch, branch.PullRequests[i]) THEN cnt + 1 ELSE cnt)

getDeleteStatus_NoProtected(branch, changes) ==
    LET hasTrackedChanges == \E i \in 1..Len(changes) : ~IsUntracked(changes[i])
    IN  IF branch.Head /\ hasTrackedChanges THEN NotDeletable
        ELSE IF Len(branch.PullRequests) = 0 THEN NotDeletable
        ELSE scanPullRequests(branch, 1, 0)

getDeleteStatus_AnyBranch(branch, changes) ==
    LET hasTrackedChanges == \E i \in 1..Len(changes) : ~IsUntracked(changes[i])
    IN  IF branch.IsProtected THEN NotDeletable
        ELSE IF hasTrackedChanges THEN NotDeletable
        ELSE IF Len(branch.PullRequests) = 0 THEN NotDeletable
        ELSE scanPullRequests(branch, 1, 0)

getDeleteStatus(branch, changes) ==
    LET hasTrackedChanges == \E i \in 1..Len(changes) : ~IsUntracked(changes[i])
    IN  IF branch.IsProtected THEN NotDeletable
        ELSE IF branch.Head /\ hasTrackedChanges THEN NotDeletable
        ELSE IF Len(branch.PullRequests) = 0 THEN NotDeletable
        ELSE scanPullRequests(branch, 1, 0)

checkDeletion(bs, changes) ==
    [i \in 1..Len(bs) |-> [bs[i] EXCEPT !.State = getDeleteStatus(bs[i], changes)]]

----------------------------------------------------------------------------
(* Deletion Executor *)

(* The selection by the states other than NotDeletable *)
getBranchNames_NotKept(bs, state) ==
    LET selected == SelectSeq(bs, LAMBDA b : b.State # NotDeletable)
    IN  [i \in 1..Len(selected) |-> selected[i].Name]

getBranchNames(bs, state) ==
    LET selected == SelectSeq(bs, LAMBDA b : b.State = state)
    IN  [i \in 1..Len(selected) |-> selected[i].Name]

(* checkDeleted without the test of the state: every branch absent from the
   listing is marked *)
checkDeleted_AnyState(branchesBefore, branchesAfter) ==
    [i \in 1..Len(branchesBefore) |->
        IF ~branchNameExists(branchesBefore[i].Name, branchesAfter)
        THEN [branchesBefore[i] EXCEPT !.State = Deleted]
        ELSE branchesBefore[i]]

(* checkDeleted trusting the delete request: the listing is not consulted *)
checkDeleted_Always(branchesBefore, branchesAfter) ==
    [i \in 1..Len(branchesBefore) |->
        IF branchesBefore[i].State = Deletable
        THEN [branchesBefore[i] EXCEPT !.State = Deleted]
        ELSE branchesBefore[i]]

(* checkDeleted leaving out the branches that are gone *)
checkDeleted_DropsDeleted(branchesBefore, branchesAfter) ==
    SelectSeq(branchesBefore,
              LAMBDA b : ~(b.State = Deletable
                           /\ ~branchNameExists(b.Name, branchesAfter)))

checkDeleted(branchesBefore, branchesAfter) ==
    [i \in 1..Len(branchesBefore) |->
        IF /\ branchesBefore[i].State = Deletable
           /\ ~branchNameExists(branchesBefore[i].Name, branchesAfter)
        THEN [branchesBefore[i] EXCEPT !.State = Deleted]
        ELSE branchesBefore[i]]

----------------------------------------------------------------------------
(* Fail-safe Switch *)

(* The test that any branch is Deletable, checked out or not *)
needsCheckout_AnyBranch(bs) == \E i \in 1..Len(bs) : bs[i].State = Deletable

needsCheckout(bs) == \E i \in 1..Len(bs) : bs[i].Head /\ bs[i].State = Deletable

(* The relabelling that marks the default branch and leaves the mark of the
   branch that was checked out *)
relabelHead_KeepsOld(bs, defaultName) ==
    LET added == IF branchNameExists(defaultName, bs) THEN <<>>
                 ELSE <<[NewBranch EXCEPT !.Head = TRUE, !.Name = defaultName,
                                          !.State = NotDeletable]>>
    IN  added \o [i \in 1..Len(bs) |->
                    [bs[i] EXCEPT !.Head = (bs[i].Head \/ bs[i].Name = defaultName)]]

(* The relabelling that adds the entry for the default branch without looking
   for it in the list *)
relabelHead_AlwaysEntry(bs, defaultName) ==
    <<[NewBranch EXCEPT !.Head = TRUE, !.Name = defaultName,
                        !.State = NotDeletable]>>
        \o [i \in 1..Len(bs) |->
                [bs[i] EXCEPT !.Head = (bs[i].Name = defaultName)]]

(* The relabelling without the entry for an absent default branch *)
relabelHead_NoEntry(bs, defaultName) ==
    [i \in 1..Len(bs) |-> [bs[i] EXCEPT !.Head = (bs[i].Name = defaultName)]]

(* switchToDefaultBranchIfDeleted after the checkout: the entry added for an
   absent default branch, then every branch relabelled *)
relabelHead(bs, defaultName) ==
    LET added == IF branchNameExists(defaultName, bs) THEN <<>>
                 ELSE <<[NewBranch EXCEPT !.Head = TRUE, !.Name = defaultName,
                                          !.State = NotDeletable]>>
    IN  added \o [i \in 1..Len(bs) |->
                    [bs[i] EXCEPT !.Head = (bs[i].Name = defaultName)]]

(* sort.Slice(branches, ... Name < Name) at the end of GetBranches *)
sortByName(bs) == SortSlice(bs, [i \in 1..Len(bs) |-> NameRank(bs[i].Name)])

----------------------------------------------------------------------------
(* Hash batching: a block is the sequence of its filters, each the commit id
   and the separator written after it *)

OidLen == 40
HashPrefixLen == 5
QueryLimit == 256

FilterLen(hash) == HashPrefixLen + OidLen + Len(hash.separator)

RECURSIVE BlockLen(_)
BlockLen(hashes) ==
    IF hashes = <<>> THEN 0 ELSE FilterLen(Head(hashes)) + BlockLen(Tail(hashes))

(* The loop closing a block after the filter that overfills it was written *)
RECURSIVE hashLoop_LateFlush(_, _, _, _)
hashLoop_LateFlush(bs, i, blocks, hashes) ==
    IF i > Len(bs)
    THEN IF BlockLen(hashes) > 0 THEN Append(blocks, hashes) ELSE blocks
    ELSE IF bs[i].RemoteHeadOid = "" /\ Len(bs[i].Commits) = 0
    THEN hashLoop_LateFlush(bs, i + 1, blocks, hashes)
    ELSE LET separator == IF i = Len(bs) THEN <<>> ELSE <<" ">>
             oid == IF bs[i].RemoteHeadOid = ""
                    THEN bs[i].Commits[Len(bs[i].Commits)]
                    ELSE bs[i].RemoteHeadOid
             hash == [oid |-> oid, separator |-> separator]
         IN  IF BlockLen(hashes) + FilterLen(hash) > QueryLimit
             THEN hashLoop_LateFlush(bs, i + 1,
                                     Append(blocks, Append(hashes, hash)), <<>>)
             ELSE hashLoop_LateFlush(bs, i + 1, blocks, Append(hashes, hash))

RECURSIVE hashLoop(_, _, _, _)
hashLoop(bs, i, blocks, hashes) ==
    IF i > Len(bs)
    THEN IF BlockLen(hashes) > 0 THEN Append(blocks, hashes) ELSE blocks
    ELSE IF bs[i].RemoteHeadOid = "" /\ Len(bs[i].Commits) = 0
    THEN hashLoop(bs, i + 1, blocks, hashes)
    ELSE LET separator == IF i = Len(bs) THEN <<>> ELSE <<" ">>
             oid == IF bs[i].RemoteHeadOid = ""
                    THEN bs[i].Commits[Len(bs[i].Commits)]
                    ELSE bs[i].RemoteHeadOid
             hash == [oid |-> oid, separator |-> separator]
         IN  IF BlockLen(hashes) + FilterLen(hash) > QueryLimit
             THEN hashLoop(bs, i + 1, Append(blocks, hashes), <<hash>>)
             ELSE hashLoop(bs, i + 1, blocks, Append(hashes, hash))

getQueryHashes(bs) == hashLoop(bs, 1, <<>>, <<>>)

----------------------------------------------------------------------------
(* What the connector answers.  A call either fails or gives its output, held
   in the form the parsing helper of the program splits it into. *)

originLine ==
    [matches |-> TRUE, Name |-> "origin", Hostname |-> <<"github", "com">>,
     RepoName |-> "owner/repo"]
upstreamLine ==
    [matches |-> TRUE, Name |-> "upstream", Hostname |-> <<"GitHub", "com">>,
     RepoName |-> "parent/repo"]
junkLine == [matches |-> FALSE, Name |-> "", Hostname |-> <<>>, RepoName |-> ""]

RemoteNamesOutputs ==
    {<<>>, <<junkLine>>, <<originLine>>, <<upstreamLine, originLine>>}

SshConfigOutputs ==
    {<<>>,
     <<[key |-> "user", value |-> <<"git">>]>>,
     <<[key |-> "user", value |-> <<"git">>],
       [key |-> "hostname", value |-> <<"SSH", "GitHub", "com">>]>>}

(* The repository JSON: malformed, or the fields getRepo reads *)
RepoNamesOutputs ==
    {[wellFormed |-> FALSE, fullName |-> "", defaultBranch |-> "", parent |-> ""],
     [wellFormed |-> TRUE, fullName |-> "owner/repo", defaultBranch |-> "main",
      parent |-> "parent/repo"]}

getRepo(json) ==
    [repoNames |-> IF json.parent # "" THEN <<json.fullName, json.parent>>
                   ELSE <<json.fullName>>,
     defaultBranchName |-> json.defaultBranch]

(* git lists the branches in name order, the detached head first, and marks
   exactly one of them as checked out *)
SortedSeqOf(S) ==
    CHOOSE s \in [1..Cardinality(S) -> S] :
        \A i, j \in 1..Cardinality(S) : i < j => NameRank(s[i]) < NameRank(s[j])

ListingOf(S, head) ==
    LET names == SortedSeqOf(S)
    IN  [i \in 1..Len(names) |->
            <<IF names[i] = head THEN "*" ELSE " ", names[i]>>]

BranchListings(n) ==
    {ListingOf(S, head) :
        S \in {T \in SUBSET (LocalNames \cup {DetachedName}) :
                 Cardinality(T) \in 1..n},
        head \in LocalNames \cup {DetachedName}} \ {<<>>}

ValidListing(lines) ==
    /\ \E i \in 1..Len(lines) : lines[i][1] = "*"
    /\ (\E i \in 1..Len(lines) : lines[i][2] = DetachedName)
          => lines[1][1] = "*"

BranchNamesOutputs == {l \in BranchListings(MaxBranches) : ValidListing(l)}

(* Before the first commit of a repository git lists no branch at all *)
UnbornListing == <<>>

(* The lines of the merged listing: blanks or a star, then the name; a
   detached head whose commit is merged is listed too *)
extractMergedBranchNames(mergedNames) ==
    LET matching == SelectSeq(mergedNames, LAMBDA line : line.indent # "")
    IN  [i \in 1..Len(matching) |-> matching[i].name]

MergedNamesOutputs(bs) ==
    {[i \in 1..Len(s) |-> [indent |-> " ", name |-> s[i]]] :
        s \in {SortedSeqOf(T) : T \in SUBSET {bs[i].Name : i \in 1..Len(bs)}}}

----------------------------------------------------------------------------
(* The program, one connector call at a time *)

(* A connector call: its arguments, whether it failed and, for the calls whose
   output a property speaks of, the lines it gave *)
CallOut(name, args, output) ==
    [name |-> name, args |-> args, failed |-> FALSE, output |-> output]
Call(name, args, hasFailed) ==
    [name |-> name, args |-> args, failed |-> hasFailed, output |-> <<>>]
NoCall == Call("none", <<>>, FALSE)

NoNumbers == [k \in {} |-> 0]

loadVars == <<branches, results, curBranch>>
trimVars == <<oids, trimmed, childNames>>
prVars == <<queries, prs, prNumbers, idx>>
argVars == <<remote, repoNames, defaultBranchName, dryRun>>

ClearLocals ==
    /\ branches' = <<>> /\ results' = <<>> /\ curBranch' = NewBranch
    /\ oids' = <<>> /\ trimmed' = <<>> /\ childNames' = <<>>
    /\ queries' = <<>> /\ prs' = <<>> /\ prNumbers' = NoNumbers /\ idx' = 0

(* return nil, err *)
ReturnError(c) ==
    /\ pc' = "exit"
    /\ outcome' = "error"
    /\ returned' = <<>>
    /\ call' = c
    /\ ClearLocals
    /\ UNCHANGED <<argVars, uncommittedChanges>>

(* An index out of range in the parsing of an output: the program stops with a
   run-time panic, neither a result nor an error *)
Panic(c) ==
    /\ pc' = "exit"
    /\ outcome' = "panic"
    /\ returned' = <<>>
    /\ call' = c
    /\ ClearLocals
    /\ UNCHANGED <<argVars, uncommittedChanges>>

Init ==
    /\ pc = "GetRemoteNames"
    /\ remote = NoRemote
    /\ repoNames = <<>>
    /\ defaultBranchName = ""
    /\ dryRun \in BOOLEAN
    /\ branches = <<>> /\ results = <<>> /\ curBranch = NewBranch
    /\ oids = <<>> /\ trimmed = <<>> /\ childNames = <<>>
    /\ queries = <<>> /\ prs = <<>> /\ prNumbers = NoNumbers /\ idx = 0
    /\ uncommittedChanges = <<>>
    /\ outcome = "none"
    /\ returned = <<>>
    /\ call = NoCall

(* GetRemote up to the choice of the primary remote *)
GetRemoteNames ==
    /\ pc = "GetRemoteNames"
    /\ \/ ReturnError(Call("GetRemoteNames", <<>>, TRUE))
       \/ \E remoteNames \in RemoteNamesOutputs :
            LET remotes == toRemotes(remoteNames)
                c == Call("GetRemoteNames", <<>>, FALSE)
            IN  IF Len(remotes) = 0
                THEN ReturnError(c)
                ELSE /\ remote' = getPrimaryRemote(remotes)
                     /\ pc' = "GetSshConfig"
                     /\ call' = c
                     /\ UNCHANGED <<repoNames, defaultBranchName, dryRun,
                                    loadVars, trimVars, prVars,
                                    uncommittedChanges, outcome, returned>>

(* The rest of GetRemote; the caller then starts GetBranches *)
GetSshConfigOn(outputs) ==
    LET goOn == /\ pc' = "GetRepoNames"
                /\ UNCHANGED <<repoNames, defaultBranchName, dryRun, loadVars,
                               trimVars, prVars, uncommittedChanges, outcome,
                               returned>>
    IN  /\ pc = "GetSshConfig"
        /\ \/ /\ call' = Call("GetSshConfig", <<>>, TRUE)
              /\ UNCHANGED remote
              /\ goOn
           \/ \E config \in outputs :
                IF hostnameOutOfRange(config)
                THEN Panic(Call("GetSshConfig", <<>>, FALSE))
                ELSE /\ call' = Call("GetSshConfig", <<>>, FALSE)
                     /\ remote' = [remote EXCEPT !.Hostname =
                            normalizeHostname(findHostname(config, remote.Hostname))]
                     /\ goOn

GetSshConfig == GetSshConfigOn(SshConfigOutputs)

GetRepoNames ==
    /\ pc = "GetRepoNames"
    /\ \/ ReturnError(Call("GetRepoNames", <<>>, TRUE))
       \/ \E json \in RepoNamesOutputs :
            LET c == Call("GetRepoNames", <<>>, FALSE)
            IN  IF ~json.wellFormed
                THEN ReturnError(c)
                ELSE /\ repoNames' = getRepo(json).repoNames
                     /\ defaultBranchName' = getRepo(json).defaultBranchName
                     /\ pc' = "CheckRepos"
                     /\ call' = c
                     /\ UNCHANGED <<remote, dryRun, loadVars, trimVars, prVars,
                                    uncommittedChanges, outcome, returned>>

CheckRepos ==
    /\ pc = "CheckRepos"
    /\ \/ ReturnError(Call("CheckRepos", <<>>, TRUE))
       \/ /\ pc' = "GetBranchNames"
          /\ call' = Call("CheckRepos", <<>>, FALSE)
          /\ UNCHANGED <<argVars, loadVars, trimVars, prVars,
                         uncommittedChanges, outcome, returned>>

(* loadBranches: the branch listing *)
GetBranchNamesOn(outputs) ==
    /\ pc = "GetBranchNames"
    /\ \/ ReturnError(Call("GetBranchNames", <<>>, TRUE))
       \/ \E names \in outputs :
            IF branchOutOfRange(names)
            THEN Panic(Call("GetBranchNames", <<>>, FALSE))
            ELSE /\ branches' = toBranch(names)
                 /\ pc' = "GetMergedBranchNames"
                 /\ call' = CallOut("GetBranchNames", <<>>,
                        [i \in 1..Len(names) |-> names[i][2]])
                 /\ UNCHANGED <<argVars, results, curBranch, trimVars, prVars,
                                uncommittedChanges, outcome, returned>>

GetBranchNames == GetBranchNamesOn(BranchNamesOutputs \cup {UnbornListing})

----------------------------------------------------------------------------
(* applyCommits and trimBranch *)

RemoteHeadOidOutputs == {<<"a97e963">>}
RemoteConfigOutputs == {<<>>, <<"origin">>}
LsRemoteOutputs == {<<>>, <<"a97e963", "refs/heads/issue1">>}

LogOutputs ==
    {SubSeq(History, i, j) : i \in 1..Len(History), j \in 0..Len(History)}
        \cap SeqsUpTo(Oids, MaxLog)

headsRef(name) == [prefix |-> "refs/heads/", rest |-> name]
remoteRef(name) == [prefix |-> "refs/remotes/origin/", rest |-> name]

RefNamesOutputs(name) ==
    {<<headsRef(name)>>,
     <<headsRef(name), remoteRef("main")>>,
     <<headsRef(name), headsRef("issue2")>>}

(* applyCommits passing over the default branch only: a detached head has
   its log read like any branch *)
RECURSIVE skipCommits_NoDetached(_, _, _)
skipCommits_NoDetached(bs, out, defaultName) ==
    IF Len(out) = Len(bs) THEN out
    ELSE LET b == bs[Len(out) + 1]
         IN  IF b.Name = defaultName
             THEN skipCommits_NoDetached(bs, Append(out, [b EXCEPT !.Commits = <<>>]),
                                         defaultName)
             ELSE out

(* applyCommits passing over a detached head only: the default branch has
   its log read like any other *)
RECURSIVE skipCommits_NoDefault(_, _, _)
skipCommits_NoDefault(bs, out, defaultName) ==
    IF Len(out) = Len(bs) THEN out
    ELSE LET b == bs[Len(out) + 1]
         IN  IF IsDetached(b)
             THEN skipCommits_NoDefault(bs, Append(out, [b EXCEPT !.Commits = <<>>]),
                                        defaultName)
             ELSE out

(* The iterations of applyCommits that make no call: the default branch and a
   detached head get no commits *)
RECURSIVE skipCommits(_, _, _)
skipCommits(bs, out, defaultName) ==
    IF Len(out) = Len(bs) THEN out
    ELSE LET b == bs[Len(out) + 1]
         IN  IF b.Name = defaultName \/ IsDetached(b)
             THEN skipCommits(bs, Append(out, [b EXCEPT !.Commits = <<>>]), defaultName)
             ELSE out

(* The first loop of applyPullRequest from position i, with numbers the map
   so far, up to its next config lookup; a detached head is passed over.  Past
   the loop the second loop attaches the pull requests. *)
RECURSIVE skipDetached(_, _)
skipDetached(bs, i) ==
    IF i > Len(bs) \/ ~IsDetached(bs[i]) THEN i ELSE skipDetached(bs, i + 1)

ContinueApplyPullRequest(bs, fetched, i, numbers) ==
    LET next == skipDetached(bs, i)
    IN  /\ queries' = <<>>
        /\ prs' = fetched
        /\ prNumbers' = numbers
        /\ IF next > Len(bs)
           THEN /\ branches' = attachPullRequests(bs, fetched, numbers)
                /\ idx' = 0
                /\ pc' = "GetUncommittedChanges"
           ELSE /\ branches' = bs
                /\ idx' = next
                /\ pc' = "GetConfig.merge"

(* applyCommits on bs from the top of its loop, with out the results so far, up
   to its next connector call; past the loop, loadBranches up to its next call *)
ContinueApplyCommits(bs, out) ==
    LET out2 == skipCommits(bs, out, defaultBranchName)
    IN  IF Len(out2) < Len(bs)
        THEN /\ branches' = bs
             /\ results' = out2
             /\ curBranch' = bs[Len(out2) + 1]
             /\ pc' = "GetRemoteHeadOid"
             /\ UNCHANGED prVars
        ELSE /\ results' = <<>>
             /\ curBranch' = NewBranch
             /\ IF getQueryHashes(out2) = <<>>
                THEN ContinueApplyPullRequest(out2, <<>>, 1, NoNumbers)
                ELSE /\ branches' = out2
                     /\ queries' = getQueryHashes(out2)
                     /\ prs' = <<>>
                     /\ prNumbers' = NoNumbers
                     /\ idx' = 0
                     /\ pc' = "GetPullRequests"

(* The pass without the test for the default branch at the first commit *)
trimStep_NoDefaultTest(names, i, branchName, defaultName, children) ==
    LET added == IF i = 0
                 THEN SelectSeq(names, LAMBDA name : name # branchName)
                 ELSE <<>>
        known == children \o added
        isChild(name) == \E k \in 1..Len(known) : known[k] = name
        stops == \E k \in 1..Len(names) :
                    names[k] # branchName /\ ~isChild(names[k])
    IN  [empty |-> FALSE, stop |-> stops, childNames |-> known]

(* The pass that registers the names of every commit, not of the first only *)
trimStep_RegistersAlways(names, i, branchName, defaultName, children) ==
    LET isDefault == i = 0 /\ nameExists(defaultName, names)
        added == SelectSeq(names, LAMBDA name : name # branchName)
        known == children \o added
        isChild(name) == \E k \in 1..Len(known) : known[k] = name
        stops == \E k \in 1..Len(names) :
                    names[k] # branchName /\ ~isChild(names[k])
    IN  [empty |-> isDefault, stop |-> ~isDefault /\ stops, childNames |-> known]

(* The pass through the names of one commit in trimBranch, i counted from 0 *)
trimStep(names, i, branchName, defaultName, children) ==
    LET isDefault == i = 0 /\ nameExists(defaultName, names)
        added == IF i = 0
                 THEN SelectSeq(names, LAMBDA name : name # branchName)
                 ELSE <<>>
        known == children \o added
        isChild(name) == \E k \in 1..Len(known) : known[k] = name
        stops == \E k \in 1..Len(names) :
                    names[k] # branchName /\ ~isChild(names[k])
    IN  [empty |-> isDefault, stop |-> ~isDefault /\ stops, childNames |-> known]

(* trimBranch returns commits for the branch b: applyCommits goes on *)
ReturnTrimBranch(b, commits) ==
    /\ ContinueApplyCommits(branches,
                            Append(results, [b EXCEPT !.Commits = commits]))
    /\ oids' = <<>> /\ trimmed' = <<>> /\ childNames' = <<>>

(* trimBranch without the stop at the first commit of a branch that has a
   remote head or is merged *)
ContinueTrimBranch_NoShortcut(b, log, acc, children) ==
    IF Len(acc) = Len(log)
    THEN ReturnTrimBranch(b, acc)
    ELSE /\ oids' = log /\ trimmed' = acc /\ childNames' = children
         /\ curBranch' = b
         /\ pc' = "GetAssociatedRefNames"
         /\ UNCHANGED <<branches, results, prVars>>

(* trimBranch from the top of its loop, with acc its results so far, up to its
   next connector call *)
ContinueTrimBranch(b, log, acc, children) ==
    IF Len(acc) = Len(log)
    THEN ReturnTrimBranch(b, acc)
    ELSE IF b.RemoteHeadOid # "" \/ b.IsMerged
    THEN ReturnTrimBranch(b, Append(acc, log[Len(acc) + 1]))
    ELSE /\ oids' = log /\ trimmed' = acc /\ childNames' = children
         /\ curBranch' = b
         /\ pc' = "GetAssociatedRefNames"
         /\ UNCHANGED <<branches, results, prVars>>

(* loadBranches: the merged listing, then applyMerged; with no branch the
   loops of applyProtected and applyCommits are passed at once *)
GetMergedBranchNames ==
    /\ pc = "GetMergedBranchNames"
    /\ \/ ReturnError(Call("GetMergedBranchNames", <<>>, TRUE))
       \/ \E mergedNames \in MergedNamesOutputs(branches) :
            LET merged == applyMerged(branches, extractMergedBranchNames(mergedNames))
            IN  /\ call' = Call("GetMergedBranchNames", <<>>, FALSE)
                /\ IF Len(merged) = 0
                   THEN ContinueApplyCommits(merged, <<>>)
                   ELSE /\ branches' = merged
                        /\ results' = <<>>
                        /\ pc' = "applyProtected"
                        /\ UNCHANGED <<curBranch, prVars>>
                /\ UNCHANGED <<argVars, trimVars, uncommittedChanges, outcome,
                               returned>>

(* applyProtected: one iteration; a failed lookup gives the empty output *)
ProtectedOutputs == {<<>>, <<"true">>, <<"false">>}

ApplyProtected ==
    /\ pc = "applyProtected"
    /\ Len(results) < Len(branches)
    /\ LET b == branches[Len(results) + 1]
       IN  \E hasFailed \in BOOLEAN :
           \E splitConfig \in IF hasFailed THEN {<<>>} ELSE ProtectedOutputs :
             LET isProtected == Len(splitConfig) > 0 /\ splitConfig[1] = "true"
                 out == Append(results,
                           IF isProtected THEN [b EXCEPT !.IsProtected = TRUE] ELSE b)
             IN  /\ call' = Call("GetConfig.gh-poi-protected", <<b.Name>>, hasFailed)
                 /\ IF Len(out) = Len(branches)
                    THEN ContinueApplyCommits(out, <<>>)
                    ELSE /\ results' = out
                         /\ pc' = "applyProtected"
                         /\ UNCHANGED <<branches, curBranch, prVars>>
    /\ UNCHANGED <<argVars, trimVars, uncommittedChanges, outcome, returned>>

(* splitLines(remoteHeadOid)[0]: an output without a line has no first line *)
GetRemoteHeadOidOn(outputs) ==
    LET rest == UNCHANGED <<argVars, branches, results, trimVars, prVars,
                            uncommittedChanges, outcome, returned>>
    IN  /\ pc = "GetRemoteHeadOid"
        /\ \/ /\ call' = Call("GetRemoteHeadOid", <<curBranch.Name>>, TRUE)
              /\ pc' = "GetConfig.remote"
              /\ UNCHANGED curBranch
              /\ rest
           \/ \E remoteHeadOid \in outputs :
                IF Len(remoteHeadOid) = 0
                THEN Panic(Call("GetRemoteHeadOid", <<curBranch.Name>>, FALSE))
                ELSE /\ call' = Call("GetRemoteHeadOid", <<curBranch.Name>>, FALSE)
                     /\ curBranch' = [curBranch EXCEPT
                                        !.RemoteHeadOid = remoteHeadOid[1]]
                     /\ pc' = "GetLog"
                     /\ rest

GetRemoteHeadOid == GetRemoteHeadOidOn(RemoteHeadOidOutputs)

(* The fallback: the remote of the branch; a failed lookup gives no lines *)
GetConfigRemote ==
    /\ pc = "GetConfig.remote"
    /\ \E hasFailed \in BOOLEAN :
       \E splitResults \in IF hasFailed THEN {<<>>} ELSE RemoteConfigOutputs :
            /\ call' = Call("GetConfig.remote", <<curBranch.Name>>, hasFailed)
            /\ pc' = IF Len(splitResults) > 0 THEN "GetLsRemoteHeadOid" ELSE "GetLog"
    /\ UNCHANGED <<argVars, loadVars, trimVars, prVars, uncommittedChanges,
                   outcome, returned>>

GetLsRemoteHeadOid ==
    /\ pc = "GetLsRemoteHeadOid"
    /\ \/ /\ call' = Call("GetLsRemoteHeadOid", <<curBranch.Name>>, TRUE)
          /\ UNCHANGED curBranch
       \/ \E splitResults \in LsRemoteOutputs :
            /\ call' = Call("GetLsRemoteHeadOid", <<curBranch.Name>>, FALSE)
            /\ curBranch' = IF Len(splitResults) > 0
                            THEN [curBranch EXCEPT !.RemoteHeadOid = splitResults[1]]
                            ELSE curBranch
    /\ pc' = "GetLog"
    /\ UNCHANGED <<argVars, branches, results, trimVars, prVars,
                   uncommittedChanges, outcome, returned>>

(* GetLog with its error dropped: a failed call reads as an empty log *)
GetLog_IgnoresError ==
    /\ pc = "GetLog"
    /\ \E hasFailed \in BOOLEAN :
       \E log \in IF hasFailed THEN {<<>>} ELSE LogOutputs :
            /\ call' = [CallOut("GetLog", <<curBranch.Name>>, log)
                            EXCEPT !.failed = hasFailed]
            /\ ContinueTrimBranch(curBranch, log, <<>>, <<>>)
            /\ UNCHANGED <<argVars, uncommittedChanges, outcome, returned>>

(* GetLog, then trimBranch up to its first lookup *)
GetLog ==
    /\ pc = "GetLog"
    /\ \/ ReturnError(Call("GetLog", <<curBranch.Name>>, TRUE))
       \/ \E log \in LogOutputs :
            /\ call' = CallOut("GetLog", <<curBranch.Name>>, log)
            /\ ContinueTrimBranch(curBranch, log, <<>>, <<>>)
            /\ UNCHANGED <<argVars, uncommittedChanges, outcome, returned>>

(* One iteration of the loop of trimBranch *)
GetAssociatedRefNames ==
    /\ pc = "GetAssociatedRefNames"
    /\ LET oid == oids[Len(trimmed) + 1]
       IN  \/ ReturnError(Call("GetAssociatedRefNames", <<oid>>, TRUE))
           \/ \E refNames \in RefNamesOutputs(curBranch.Name) :
                LET step == trimStep(extractBranchNames(refNames), Len(trimmed),
                                     curBranch.Name, defaultBranchName, childNames)
                IN  /\ call' = CallOut("GetAssociatedRefNames", <<oid>>, refNames)
                    /\ IF step.empty
                       THEN ReturnTrimBranch(curBranch, <<>>)
                       ELSE IF step.stop
                       THEN ReturnTrimBranch(curBranch, trimmed)
                       ELSE ContinueTrimBranch(curBranch, oids,
                                Append(trimmed, oid), step.childNames)
                    /\ UNCHANGED <<argVars, uncommittedChanges, outcome, returned>>

----------------------------------------------------------------------------
(* The pull request search and applyPullRequest *)

EdgeNames == {"issue1", "main"}
EdgeStates == {"MERGED", "OPEN", "CLOSED"}
EdgeNumbers == {1}
EdgeCommits == {<<"a97e963">>}

Edges(names, states, numbers, commits) ==
    [headRefName : names, state : states, number : numbers, commits : commits]

(* The pull requests a response can list: of issue1 in every state, of the
   default branch a merged one *)
EdgeMenu ==
    Edges({"issue1"}, EdgeStates, EdgeNumbers, EdgeCommits)
        \cup Edges(EdgeNames \ {"issue1"}, {"MERGED"}, EdgeNumbers, EdgeCommits)

unknownEdge ==
    [headRefName |-> "issue1", state |-> "QUEUED", number |-> 1, commits |-> <<>>]

(* A search response: malformed JSON, or its edges *)
PullRequestsOutputs ==
    {[wellFormed |-> FALSE, edges |-> <<>>]}
    \cup {[wellFormed |-> TRUE, edges |-> e] :
            e \in SeqsUpTo(EdgeMenu, MaxPRs) \cup {<<unknownEdge>>}}

GetPullRequests ==
    /\ pc = "GetPullRequests"
    /\ \/ ReturnError(Call("GetPullRequests", <<>>, TRUE))
       \/ \E json \in PullRequestsOutputs :
            LET c == Call("GetPullRequests", <<>>, FALSE)
                fetched == prs \o toPullRequests(json.edges)
            IN  IF ~json.wellFormed \/ hasUnknownState(json.edges)
                THEN ReturnError(c)
                ELSE /\ call' = c
                     /\ IF Len(queries) = 1
                        THEN ContinueApplyPullRequest(branches, fetched, 1, NoNumbers)
                        ELSE /\ queries' = Tail(queries)
                             /\ prs' = fetched
                             /\ UNCHANGED <<branches, prNumbers, idx, pc>>
                     /\ UNCHANGED <<argVars, results, curBranch, trimVars,
                                    uncommittedChanges, outcome, returned>>

noMergeConfig == [prefix |-> "", digits |-> <<>>, rest |-> ""]

MergeConfigOutputs(name) ==
    {noMergeConfig,
     [prefix |-> "refs/heads/", digits |-> <<>>, rest |-> name],
     [prefix |-> "refs/pull/", digits |-> <<1>>, rest |-> "/head"]}

(* One iteration of the first loop of applyPullRequest; a failed lookup gives
   the empty value *)
GetConfigMerge ==
    /\ pc = "GetConfig.merge"
    /\ LET name == branches[idx].Name
       IN  \E hasFailed \in BOOLEAN :
           \E mergeConfig \in IF hasFailed THEN {noMergeConfig}
                              ELSE MergeConfigOutputs(name) :
             LET n == getPRNumber(mergeConfig)
                 numbers == IF n > 0
                            THEN [k \in DOMAIN prNumbers \cup {name} |->
                                    IF k = name THEN n ELSE prNumbers[k]]
                            ELSE prNumbers
             IN  /\ call' = Call("GetConfig.merge", <<name>>, hasFailed)
                 /\ ContinueApplyPullRequest(branches, prs, idx + 1, numbers)
    /\ UNCHANGED <<argVars, results, curBranch, trimVars, uncommittedChanges,
                   outcome, returned>>

----------------------------------------------------------------------------
(* Classification, the fail-safe switch and the return of GetBranches *)

untrackedLine == <<"?", "?", " ", "f">>
modifiedLine == <<" ", "M", " ", "g">>
stagedLine == <<"M", " ", " ", "h">>

UncommittedChangesOutputs ==
    {<<>>, <<untrackedLine>>, <<untrackedLine, modifiedLine>>, <<stagedLine>>}

(* return branches, nil: the locals of the call are gone *)
ReturnBranches(bs) ==
    /\ returned' = bs
    /\ outcome' = "ok"
    /\ pc' = "idle"
    /\ ClearLocals

GetUncommittedChangesOn(outputs) ==
    /\ pc = "GetUncommittedChanges"
    /\ \/ ReturnError(Call("GetUncommittedChanges", <<>>, TRUE))
       \/ \E changes \in outputs :
            LET classified == checkDeletion(branches, toUncommittedChange(changes))
            IN  IF changeOutOfRange(changes)
                THEN Panic(Call("GetUncommittedChanges", <<>>, FALSE))
                ELSE
                /\ call' = Call("GetUncommittedChanges", <<>>, FALSE)
                /\ uncommittedChanges' = toUncommittedChange(changes)
                /\ IF ~needsCheckout(classified)
                   THEN ReturnBranches(sortByName(classified))
                   ELSE IF dryRun
                   THEN ReturnBranches(sortByName(
                            relabelHead(classified, defaultBranchName)))
                   ELSE /\ branches' = classified
                        /\ prs' = <<>> /\ prNumbers' = NoNumbers
                        /\ pc' = "CheckoutBranch"
                        /\ UNCHANGED <<results, curBranch, trimVars, queries,
                                       idx, outcome, returned>>
                /\ UNCHANGED argVars

GetUncommittedChanges == GetUncommittedChangesOn(UncommittedChangesOutputs)

(* The switch with the error of the checkout dropped: the list is relabelled
   and returned all the same *)
CheckoutBranch_IgnoresError ==
    /\ pc = "CheckoutBranch"
    /\ \E hasFailed \in BOOLEAN :
          call' = Call("CheckoutBranch", <<defaultBranchName>>, hasFailed)
    /\ ReturnBranches(sortByName(relabelHead(branches, defaultBranchName)))
    /\ UNCHANGED <<argVars, uncommittedChanges>>

CheckoutBranch ==
    /\ pc = "CheckoutBranch"
    /\ \/ ReturnError(Call("CheckoutBranch", <<defaultBranchName>>, TRUE))
       \/ /\ call' = Call("CheckoutBranch", <<defaultBranchName>>, FALSE)
          /\ ReturnBranches(sortByName(relabelHead(branches, defaultBranchName)))
          /\ UNCHANGED <<argVars, uncommittedChanges>>

----------------------------------------------------------------------------
(* DeleteBranches, called on the list the caller holds *)

(* DeleteBranches without the early return: the request is sent with no name *)
DeleteBranches_Always ==
    /\ pc = "idle"
    /\ outcome = "ok"
    /\ \E hasFailed \in BOOLEAN :
          call' = Call("DeleteBranches", getBranchNames(returned, Deletable), hasFailed)
    /\ branches' = returned
    /\ outcome' = "none"
    /\ pc' = "GetBranchNames.after"
    /\ UNCHANGED <<returned, argVars, results, curBranch, trimVars, prVars,
                   uncommittedChanges>>

(* With nothing to delete the list is returned as it is; otherwise the delete
   request is sent and its result dropped *)
DeleteBranches ==
    /\ pc = "idle"
    /\ outcome = "ok"
    /\ LET branchNames == getBranchNames(returned, Deletable)
       IN  IF Len(branchNames) = 0
           THEN /\ call' = NoCall
                /\ UNCHANGED <<pc, branches, returned, outcome>>
           ELSE /\ \E hasFailed \in BOOLEAN :
                     call' = Call("DeleteBranches", branchNames, hasFailed)
                /\ branches' = returned
                /\ outcome' = "none"
                /\ pc' = "GetBranchNames.after"
                /\ UNCHANGED returned
    /\ UNCHANGED <<argVars, results, curBranch, trimVars, prVars,
                   uncommittedChanges>>

(* The listing after the delete with its error dropped: a failed call reads
   as an empty listing *)
GetBranchNamesAfter_IgnoresError ==
    /\ pc = "GetBranchNames.after"
    /\ \E hasFailed \in BOOLEAN :
       \E branchNamesAfter \in IF hasFailed THEN {<<>>} ELSE BranchNamesOutputs :
            /\ call' = [CallOut("GetBranchNames", <<>>,
                            [i \in 1..Len(branchNamesAfter) |-> branchNamesAfter[i][2]])
                            EXCEPT !.failed = hasFailed]
            /\ ReturnBranches(checkDeleted(branches, toBranch(branchNamesAfter)))
            /\ UNCHANGED <<argVars, uncommittedChanges>>

(* The listing after the delete, then checkDeleted *)
GetBranchNamesAfter ==
    /\ pc = "GetBranchNames.after"
    /\ \/ ReturnError(Call("GetBranchNames", <<>>, TRUE))
       \/ \E branchNamesAfter \in BranchNamesOutputs :
            /\ call' = CallOut("GetBranchNames", <<>>,
                    [i \in 1..Len(branchNamesAfter) |-> branchNamesAfter[i][2]])
            /\ ReturnBranches(checkDeleted(branches, toBranch(branchNamesAfter)))
            /\ UNCHANGED <<argVars, uncommittedChanges>>

----------------------------------------------------------------------------

Next ==
    \/ GetRemoteNames
    \/ GetSshConfig
    \/ GetRepoNames
    \/ CheckRepos
    \/ GetBranchNames
    \/ GetMergedBranchNames
    \/ ApplyProtected
    \/ GetRemoteHeadOid
    \/ GetConfigRemote
    \/ GetLsRemoteHeadOid
    \/ GetLog
    \/ GetAssociatedRefNames
    \/ GetPullRequests
    \/ GetConfigMerge
    \/ GetUncommittedChanges
    \/ CheckoutBranch
    \/ DeleteBranches
    \/ GetBranchNamesAfter

Spec == Init /\ [][Next]_vars

----------------------------------------------------------------------------
(* Classification on its own: GetBranches from the point where the branches
   are loaded, for every loaded branch within the bounds *)

PullRequestCommits ==
    {<<>>} \cup {<<o>> : o \in Oids} \cup {<<History[2], History[1]>>}

LoadedPullRequests(name) ==
    {[i \in 1..Len(s) |-> [Name |-> name, State |-> s[i][1], Number |-> i,
                           Commits |-> s[i][2]]] :
        s \in SeqsUpTo({Closed, Merged, Open} \X PullRequestCommits, MaxPRs)}

LoadedBranches(name) ==
    [Head : BOOLEAN, Name : {name}, IsMerged : {FALSE}, IsProtected : BOOLEAN,
     RemoteHeadOid : {""}, Commits : LogOutputs,
     PullRequests : LoadedPullRequests(name), State : {Unknown}]

InitStatus ==
    /\ pc = "GetUncommittedChanges"
    /\ remote = [Name |-> "origin", Hostname |-> github, RepoName |-> "owner/repo"]
    /\ repoNames = <<"owner/repo", "parent/repo">>
    /\ defaultBranchName = "main"
    /\ dryRun \in BOOLEAN
    /\ branches \in {<<b>> : b \in LoadedBranches("issue1")}
    /\ results = <<>> /\ curBranch = NewBranch
    /\ oids = <<>> /\ trimmed = <<>> /\ childNames = <<>>
    /\ queries = <<>> /\ prs = <<>> /\ prNumbers = NoNumbers /\ idx = 0
    /\ uncommittedChanges = <<>>
    /\ outcome = "none"
    /\ returned = <<>>
    /\ call = NoCall

NextStatus ==
    \/ GetUncommittedChanges
    \/ CheckoutBranch

SpecStatus == InitStatus /\ [][NextStatus]_vars

----------------------------------------------------------------------------
(* Matching on its own: applyPullRequest for every list of branches and every
   list of fetched pull requests within the bounds *)

MatchNames == {"issue1", "issue2", "main", DetachedName}

MatchBranch(name) ==
    [NewBranch EXCEPT !.Name = name,
                      !.Head = (name = "main"),
                      !.Commits = IF name \in {"main", DetachedName} THEN <<>>
                                  ELSE <<"a97e963">>]

MatchBranches ==
    {[i \in 1..Cardinality(S) |-> MatchBranch(SortedSeqOf(S)[i])] :
        S \in {T \in SUBSET MatchNames : T \cap {"issue1", "issue2"} # {}}}

FetchedPullRequests ==
    SeqsUpTo([Name : {"issue1", "issue2"}, State : {Merged, Open},
              Number : PRNumbers, Commits : {<<"a97e963">>}], MaxPRs)

InitMatch ==
    /\ remote = [Name |-> "origin", Hostname |-> github, RepoName |-> "owner/repo"]
    /\ repoNames = <<"owner/repo", "parent/repo">>
    /\ defaultBranchName = "main"
    /\ dryRun = FALSE
    /\ branches \in MatchBranches
    /\ prs \in FetchedPullRequests
    /\ pc = "GetConfig.merge"
    /\ idx = skipDetached(branches, 1)
    /\ prNumbers = NoNumbers
    /\ results = <<>> /\ curBranch = NewBranch
    /\ oids = <<>> /\ trimmed = <<>> /\ childNames = <<>>
    /\ queries = <<>>
    /\ uncommittedChanges = <<>>
    /\ outcome = "none"
    /\ returned = <<>>
    /\ call = NoCall

NextMatch == GetConfigMerge

SpecMatch == InitMatch /\ [][NextMatch]_vars

----------------------------------------------------------------------------
(* Deletion on its own: DeleteBranches on every list GetBranches can hand to
   the caller within the bounds: in name order, one branch checked out, the
   default branch and the checked-out branch not Deletable *)

DeleteNames == {"issue1", "issue2", "main"}

(* A branch as classified: without pull request or with an Open one it is
   NotDeletable, with a Merged one that holds its commit it is Deletable *)
ClassifiedBranch(name, head, prState) ==
    [NewBranch EXCEPT !.Name = name,
                      !.Head = (name = head),
                      !.Commits = IF name = "main" THEN <<>> ELSE <<"a97e963">>,
                      !.PullRequests =
                            IF prState = "none" THEN <<>>
                            ELSE <<[Name |-> name, State |-> prState, Number |-> 1,
                                    Commits |-> <<"a97e963">>]>>,
                      !.State = IF prState = Merged /\ name # "main"
                                THEN Deletable ELSE NotDeletable]

ClassifiedLists ==
    {[i \in 1..Cardinality(S) |->
            ClassifiedBranch(SortedSeqOf(S)[i], head, st[SortedSeqOf(S)[i]])] :
        S \in SUBSET DeleteNames \ {{}},
        head \in DeleteNames,
        st \in [DeleteNames -> {"none", Open, Merged}]}

HandedToCaller(bs) ==
    /\ \E i \in DOMAIN bs : bs[i].Head
    /\ \A i \in DOMAIN bs :
          (bs[i].Head \/ bs[i].Name = "main") => bs[i].State = NotDeletable

InitDelete ==
    /\ pc = "idle"
    /\ outcome = "ok"
    /\ returned \in {bs \in ClassifiedLists : HandedToCaller(bs)}
    /\ remote = [Name |-> "origin", Hostname |-> github, RepoName |-> "owner/repo"]
    /\ repoNames = <<"owner/repo", "parent/repo">>
    /\ defaultBranchName = "main"
    /\ dryRun = FALSE
    /\ branches = <<>> /\ results = <<>> /\ curBranch = NewBranch
    /\ oids = <<>> /\ trimmed = <<>> /\ childNames = <<>>
    /\ queries = <<>> /\ prs = <<>> /\ prNumbers = NoNumbers /\ idx = 0
    /\ uncommittedChanges = <<>>
    /\ call \in {Call("GetUncommittedChanges", <<>>, FALSE),
                 Call("CheckoutBranch", <<"main">>, FALSE)}

NextDelete ==
    \/ DeleteBranches
    \/ GetBranchNamesAfter

SpecDelete == InitDelete /\ [][NextDelete]_vars

----------------------------------------------------------------------------
(* The switch on its own: GetBranches from the point where the branches are
   loaded, for lists with and without the default branch.  A loaded default
   branch has no commits and is in the merged listing; any other branch has
   one commit and no pull request, an Open one, or a Merged one that holds
   the commit. *)

SwitchNames == {"issue1", "issue2", "main"}

SwitchBranch(name, head, prState) ==
    [NewBranch EXCEPT !.Name = name,
                      !.Head = (name = head),
                      !.IsMerged = (name = "main"),
                      !.Commits = IF name = "main" THEN <<>> ELSE <<"a97e963">>,
                      !.PullRequests =
                            IF prState = "none" THEN <<>>
                            ELSE <<[Name |-> name, State |-> prState, Number |-> 1,
                                    Commits |-> <<"a97e963">>]>>]

SwitchLists ==
    {[i \in 1..Cardinality(S) |->
            SwitchBranch(SortedSeqOf(S)[i], head, st[SortedSeqOf(S)[i]])] :
        S \in SUBSET SwitchNames \ {{}},
        head \in SwitchNames,
        st \in [SwitchNames -> {"none", Open, Merged}]}

InitSwitch ==
    /\ pc = "GetUncommittedChanges"
    /\ remote = [Name |-> "origin", Hostname |-> github, RepoName |-> "owner/repo"]
    /\ repoNames = <<"owner/repo", "parent/repo">>
    /\ defaultBranchName = "main"
    /\ dryRun \in BOOLEAN
    /\ branches \in {bs \in SwitchLists : \E i \in DOMAIN bs : bs[i].Head}
    /\ results = <<>> /\ curBranch = NewBranch
    /\ oids = <<>> /\ trimmed = <<>> /\ childNames = <<>>
    /\ queries = <<>> /\ prs = <<>> /\ prNumbers = NoNumbers /\ idx = 0
    /\ uncommittedChanges = <<>>
    /\ outcome = "none"
    /\ returned = <<>>
    /\ call = NoCall

SpecSwitch == InitSwitch /\ [][NextStatus]_vars

----------------------------------------------------------------------------
(* applyCommits on its own, for every list of branches within the bounds as
   applyMerged and applyProtected leave it *)

TrimNames == {"issue1", "issue2", "main", DetachedName}

TrimLists ==
    {[i \in 1..Cardinality(S) |->
            [NewBranch EXCEPT !.Name = SortedSeqOf(S)[i],
                              !.Head = (SortedSeqOf(S)[i] = head),
                              !.IsMerged = (SortedSeqOf(S)[i] \in M)]] :
        S \in {T \in SUBSET TrimNames : T \cap {"issue1", "issue2"} # {}},
        head \in TrimNames,
        M \in SUBSET {"issue1", "main"}}

InitTrim ==
    /\ remote = [Name |-> "origin", Hostname |-> github, RepoName |-> "owner/repo"]
    /\ repoNames = <<"owner/repo", "parent/repo">>
    /\ defaultBranchName = "main"
    /\ dryRun = FALSE
    /\ branches \in {bs \in TrimLists : \E i \in DOMAIN bs : bs[i].Head}
    /\ results = skipCommits(branches, <<>>, defaultBranchName)
    /\ curBranch = branches[Len(results) + 1]
    /\ pc = "GetRemoteHeadOid"
    /\ oids = <<>> /\ trimmed = <<>> /\ childNames = <<>>
    /\ queries = <<>> /\ prs = <<>> /\ prNumbers = NoNumbers /\ idx = 0
    /\ uncommittedChanges = <<>>
    /\ outcome = "none"
    /\ returned = <<>>
    /\ call = Call("GetConfig.gh-poi-protected",
                   <<branches[Len(branches)].Name>>, FALSE)

NextTrim ==
    \/ GetRemoteHeadOid
    \/ GetConfigRemote
    \/ GetLsRemoteHeadOid
    \/ GetLog
    \/ GetAssociatedRefNames

SpecTrim == InitTrim /\ [][NextTrim]_vars

----------------------------------------------------------------------------
(* The hash batching of loadBranches on its own: applyCommits at the log of
   its last branch, for lists long enough to fill more than one block *)

MaxHashBranches == 7   \* most branches a list handed to the batching holds

HashNames == <<"b1", "b2", "b3", "b4", "b5", "b6", "b7", "b8">>

(* A branch as applyCommits leaves it: with a remote head, with the commits
   of its log only, or with neither *)
HashBranch(name, kind) ==
    [NewBranch EXCEPT !.Name = name,
                      !.IsMerged = (kind = "none"),
                      !.RemoteHeadOid = IF kind = "remote" THEN "a97e963" ELSE "",
                      !.Commits = IF kind = "none" THEN <<>> ELSE <<"b8a2645">>]

HashLists ==
    UNION {{[i \in 1..n |-> HashBranch(HashNames[i], kinds[i])] :
                kinds \in [1..n -> {"remote", "commit", "none"}]} :
            n \in 1..MaxHashBranches}

InitHash ==
    /\ remote = [Name |-> "origin", Hostname |-> github, RepoName |-> "owner/repo"]
    /\ repoNames = <<"owner/repo", "parent/repo">>
    /\ defaultBranchName = "main"
    /\ dryRun = FALSE
    /\ \E bs \in HashLists :
            /\ branches = [i \in 1..Len(bs) |->
                              [NewBranch EXCEPT !.Name = bs[i].Name,
                                                !.IsMerged = bs[i].IsMerged]]
            /\ results = SubSeq(bs, 1, Len(bs) - 1)
            /\ curBranch = [bs[Len(bs)] EXCEPT !.Commits = <<>>]
    /\ pc = "GetLog"
    /\ oids = <<>> /\ trimmed = <<>> /\ childNames = <<>>
    /\ queries = <<>> /\ prs = <<>> /\ prNumbers = NoNumbers /\ idx = 0
    /\ uncommittedChanges = <<>>
    /\ outcome = "none"
    /\ returned = <<>>
    /\ call = Call("GetRemoteHeadOid", <<curBranch.Name>>, FALSE)

NextHash ==
    \/ GetLog
    \/ GetAssociatedRefNames

SpecHash == InitHash /\ [][NextHash]_vars

----------------------------------------------------------------------------
(* GetRemote and GetBranches with a connector whose successful calls may also
   give an output the parsing does not expect: an ssh config line with the key
   hostname only, a branch line without the colon, no line for the remote head,
   a status line of fewer than three characters *)

RawSshConfigOutputs == SshConfigOutputs \cup {<<[key |-> "hostname"]>>}

RawBranchNamesOutputs ==
    BranchNamesOutputs \cup {UnbornListing} \cup {<<<<"issue1">>>>}

RawRemoteHeadOidOutputs == RemoteHeadOidOutputs \cup {<<>>}

RawUncommittedChangesOutputs ==
    UncommittedChangesOutputs \cup {<<<<"M">>>>, <<untrackedLine, <<"?", "?">>>>}

GetSshConfigRaw == GetSshConfigOn(RawSshConfigOutputs)

GetBranchNamesRaw == GetBranchNamesOn(RawBranchNamesOutputs)

GetRemoteHeadOidRaw == GetRemoteHeadOidOn(RawRemoteHeadOidOutputs)

GetUncommittedChangesRaw == GetUncommittedChangesOn(RawUncommittedChangesOutputs)

NextRaw ==
    \/ GetRemoteNames
    \/ GetSshConfigRaw
    \/ GetRepoNames
    \/ CheckRepos
    \/ GetBranchNamesRaw
    \/ GetMergedBranchNames
    \/ ApplyProtected
    \/ GetRemoteHeadOidRaw
    \/ GetConfigRemote
    \/ GetLsRemoteHeadOid
    \/ GetLog
    \/ GetAssociatedRefNames
    \/ GetPullRequests
    \/ GetConfigMerge
    \/ GetUncommittedChangesRaw
    \/ CheckoutBranch

SpecRaw == Init /\ [][NextRaw]_vars

----------------------------------------------------------------------------
(* Properties *)

AllBranches == Range(branches) \cup Range(returned) \cup Range(results)

(* The branches that carry the verdict of checkDeletion *)
Classified ==
    Range(returned) \cup (IF pc = "CheckoutBranch" THEN Range(branches) ELSE {})

HasMergedWith(b, oid) ==
    \E k \in 1..Len(b.PullRequests) :
        /\ b.PullRequests[k].State = Merged
        /\ oid \in Range(b.PullRequests[k].Commits)

HasOpen(b) == \E k \in 1..Len(b.PullRequests) : b.PullRequests[k].State = Open

(* C1, as amended: a pull request is fully merged for a branch exactly when
   its State is Merged, the branch has commits, and the first entry of Commits,
   the newest retained commit, is among the commits of the pull request; a
   Deletable branch has such a pull request. *)
C1_FullyMergedNewest ==
    /\ \A b \in AllBranches : \A k \in 1..Len(b.PullRequests) :
          isFullyMerged(b, b.PullRequests[k])
            <=> /\ b.PullRequests[k].State = Merged
                /\ b.Commits # <<>>
                /\ b.Commits[1] \in Range(b.PullRequests[k].Commits)
    /\ \A b \in Classified :
          b.State = Deletable => b.Commits # <<>> /\ HasMergedWith(b, b.Commits[1])

(* C1 as stated: the commit compared is the oldest retained one *)
C1_FullyMergedOldest ==
    \A b \in Classified : \A k \in 1..Len(b.PullRequests) :
        isFullyMerged(b, b.PullRequests[k])
          <=> /\ b.PullRequests[k].State = Merged
              /\ b.Commits # <<>>
              /\ b.Commits[Len(b.Commits)] \in Range(b.PullRequests[k].Commits)

C1_Witness ==
    \E b \in Range(returned) :
        /\ Len(b.Commits) >= 2
        /\ b.State = Deletable
        /\ HasMergedWith(b, b.Commits[1])
        /\ ~HasMergedWith(b, b.Commits[Len(b.Commits)])

(* C5: a protected branch is classified NotDeletable, whatever its Head, its
   commits, its pull requests and the uncommitted changes *)
C5_ProtectedNotDeletable ==
    \A b \in Classified : b.IsProtected => b.State = NotDeletable

C5_Witness ==
    \E b \in Range(returned) :
        /\ b.IsProtected
        /\ b.State = NotDeletable
        /\ ~HasOpen(b)
        /\ b.Commits # <<>> /\ HasMergedWith(b, b.Commits[1])
        /\ \A k \in 1..Len(uncommittedChanges) : IsUntracked(uncommittedChanges[k])

(* The verdict the classifying step gave the branch called name *)
StateAfter(name) ==
    LET bs == IF pc' = "CheckoutBranch" THEN branches' ELSE returned'
    IN  bs[CHOOSE i \in 1..Len(bs) : bs[i].Name = name].State

HasTracked(changes) == \E k \in 1..Len(changes) : changes[k].Y # "?"

(* C6: in the classifying step, a checked-out branch is NotDeletable when a
   change that is not untracked exists; when every change is untracked, or
   the branch is not checked out, the verdict is the one with no changes *)
C6_UncommittedChanges ==
    [][(pc = "GetUncommittedChanges" /\ outcome' # "error") =>
        \A i \in 1..Len(branches) :
            LET b == branches[i]
            IN  /\ (b.Head /\ HasTracked(uncommittedChanges'))
                      => StateAfter(b.Name) = NotDeletable
                /\ (~b.Head \/ ~HasTracked(uncommittedChanges'))
                      => StateAfter(b.Name) = getDeleteStatus(b, <<>>)]_vars

C6_Witness ==
    /\ HasTracked(uncommittedChanges)
    /\ \E k \in 1..Len(uncommittedChanges) : IsUntracked(uncommittedChanges[k])
    /\ \E b \in Range(returned) :
          /\ b.Head /\ b.State = NotDeletable
          /\ getDeleteStatus(b, <<>>) = Deletable

(* C7: a branch with an Open pull request is classified NotDeletable, whatever
   its other pull requests and their order *)
C7_OpenNotDeletable ==
    \A b \in Classified : HasOpen(b) => b.State = NotDeletable

C7_Witness ==
    \E b \in Range(returned) :
        /\ ~b.IsProtected
        /\ Len(b.PullRequests) >= 2
        /\ isFullyMerged(b, b.PullRequests[1])
        /\ b.PullRequests[Len(b.PullRequests)].State = Open
        /\ b.State = NotDeletable
        /\ ~HasTracked(uncommittedChanges)

(* C8: for a branch without commits no pull request is fully merged, and the
   branch is not Deletable *)
C8_EmptyCommits ==
    /\ \A b \in AllBranches : b.Commits = <<>> =>
          \A k \in 1..Len(b.PullRequests) : ~isFullyMerged(b, b.PullRequests[k])
    /\ \A b \in Classified : b.Commits = <<>> => b.State # Deletable

C8_Witness ==
    \E b \in Range(returned) :
        /\ b.Commits = <<>>
        /\ ~b.IsProtected /\ ~HasOpen(b)
        /\ \E k \in 1..Len(b.PullRequests) :
              /\ b.PullRequests[k].State = Merged
              /\ b.PullRequests[k].Commits # <<>>
        /\ ~HasTracked(uncommittedChanges)
        /\ b.State = NotDeletable

----------------------------------------------------------------------------
(* The commits of a branch with a remote head or a merged flag *)

HasRemoteOrMerged(b) == b.RemoteHeadOid # "" \/ b.IsMerged

(* The branch that the step out of GetLog appends to the results of
   applyCommits; past the last branch the results are the branches *)
AppendedAfterLog ==
    LET i == Len(results) + 1
    IN  IF Len(results') >= i THEN results'[i] ELSE branches'[i]

(* C2, as amended: in every list returned, a branch with a remote head or a
   merged flag has at most one commit, and none when it is the default branch
   or a detached head; and when the log of such a branch is read, the branch
   gets exactly the newest commit of the log, or no commit when the log is
   empty. *)
C2_AtMostOneCommit ==
    /\ [](\A b \in Range(returned) :
            HasRemoteOrMerged(b) =>
                /\ Len(b.Commits) <= 1
                /\ (b.Name = defaultBranchName \/ IsDetached(b)) => b.Commits = <<>>)
    /\ [][(pc = "GetLog" /\ call'.name = "GetLog" /\ ~call'.failed
            /\ HasRemoteOrMerged(curBranch))
          => /\ pc' # "GetAssociatedRefNames"
             /\ AppendedAfterLog.Name = curBranch.Name
             /\ AppendedAfterLog.Commits =
                    IF call'.output = <<>> THEN <<>> ELSE <<call'.output[1]>>]_vars

(* C2 as stated: exactly one commit, the default branch and the empty log
   included *)
C2_ExactlyOneCommit ==
    \A b \in Range(returned) : HasRemoteOrMerged(b) => Len(b.Commits) = 1

C2_Witness ==
    /\ pc = "idle" /\ outcome = "ok"
    /\ \E b \in Range(returned) :
          /\ b.Name # defaultBranchName /\ ~IsDetached(b)
          /\ b.RemoteHeadOid # "" /\ Len(b.Commits) = 1
    /\ \E b \in Range(returned) :
          /\ b.Name = defaultBranchName /\ b.IsMerged /\ b.Commits = <<>>

----------------------------------------------------------------------------
(* Matching of pull requests to branches *)

(* The positions of branches once applyPullRequest has attached the pull
   requests *)
Matched == IF pc = "GetUncommittedChanges" THEN DOMAIN branches ELSE {}

NumbersOf(b) == {b.PullRequests[k].Number : k \in 1..Len(b.PullRequests)}

(* C3, as amended: after applyPullRequest no pull request number is repeated
   within the list of one branch, and a number is in the lists of two
   different branches only when the merge config of both names that pull
   request, or when no merge config names it and the two lists hold records
   of that number whose head names are the names of the two branches; a pull
   request matched to one branch stays open to matching for the others. *)
C3_MatchingPerBranch ==
    \A i \in Matched :
        LET bi == branches[i]
        IN  /\ Cardinality(NumbersOf(bi)) = Len(bi.PullRequests)
            /\ \A j \in Matched \ {i} :
                  \A p \in Range(bi.PullRequests), q \in Range(branches[j].PullRequests) :
                    p.Number = q.Number =>
                      \/ /\ MapGet(prNumbers, bi.Name) = p.Number
                         /\ MapGet(prNumbers, branches[j].Name) = p.Number
                      \/ /\ ~prNumberExists(prNumbers, p.Number)
                         /\ p.Name = bi.Name
                         /\ q.Name = branches[j].Name

(* C3 as stated: no number in the lists of two different branches *)
C3_PartialInjection ==
    \A i \in Matched : \A j \in Matched \ {i} :
        NumbersOf(branches[i]) \cap NumbersOf(branches[j]) = {}

C3_Witness ==
    /\ pc = "GetUncommittedChanges"
    /\ \E i \in DOMAIN branches : \E j \in DOMAIN branches \ {i} :
          /\ MapGet(prNumbers, branches[i].Name) = 1
          /\ MapGet(prNumbers, branches[j].Name) = 1
          /\ 1 \in NumbersOf(branches[i]) \cap NumbersOf(branches[j])
          /\ Len(prs) = MaxPRs

----------------------------------------------------------------------------
(* Failing connector calls in GetRemote and GetBranches *)

(* The calls whose failure the code passes over *)
SwallowedCalls ==
    {"GetSshConfig", "GetRemoteHeadOid", "GetConfig.gh-poi-protected",
     "GetConfig.remote", "GetLsRemoteHeadOid", "GetConfig.merge"}

ClaimedSwallowedCalls ==
    {"GetSshConfig", "GetRemoteHeadOid", "GetConfig.gh-poi-protected"}

Aborted == pc = "exit" /\ outcome = "error" /\ returned = <<>>

FailedCall == call.failed /\ call.name # "DeleteBranches"

(* C4, as amended: a failing connector call during GetRemote or GetBranches
   aborts the call with an error and no branch list, with exactly six
   exceptions, after which the call goes on: the SSH alias lookup, the remote
   head lookup (the fallback starts with the remote of the branch), the
   protection flag lookup, the branch.<name>.remote lookup, the ls-remote
   fallback (the log is read next) and the branch.<name>.merge lookup. *)
C4_SwallowedFailures ==
    FailedCall =>
        IF call.name \in SwallowedCalls
        THEN /\ ~Aborted /\ outcome # "error"
             /\ call.name = "GetRemoteHeadOid" => pc = "GetConfig.remote"
             /\ call.name \in {"GetConfig.remote", "GetLsRemoteHeadOid"} => pc = "GetLog"
        ELSE Aborted

(* C4 as stated: three exceptions, every other failure aborts *)
C4_ThreeExceptions ==
    FailedCall =>
        IF call.name \in ClaimedSwallowedCalls
        THEN ~Aborted /\ outcome # "error"
        ELSE Aborted

C4_Witness ==
    /\ call.name = "GetConfig.merge" /\ call.failed
    /\ pc = "GetUncommittedChanges"
    /\ \E i \in DOMAIN branches : branches[i].RemoteHeadOid = ""
                                   /\ branches[i].Name = call.args[1]

----------------------------------------------------------------------------
(* The default branch, checked out *)

(* C9: in every list returned, the default branch main with Head = TRUE is
   NotDeletable, also with a Merged pull request of head name main matched
   to it. *)
C9_DefaultHeadNotDeletable ==
    \A b \in Range(returned) :
        (b.Name = "main" /\ b.Name = defaultBranchName /\ b.Head)
            => b.State = NotDeletable

C9_Witness ==
    /\ pc = "idle" /\ outcome = "ok" /\ call.name = "GetUncommittedChanges"
    /\ ~HasTracked(uncommittedChanges)
    /\ \E b \in Range(returned) :
          /\ b.Name = "main" /\ b.Head /\ ~b.IsProtected
          /\ \E k \in 1..Len(b.PullRequests) :
                b.PullRequests[k].State = Merged /\ b.PullRequests[k].Name = "main"
          /\ ~HasOpen(b)
          /\ b.State = NotDeletable

----------------------------------------------------------------------------
(* DeleteBranches *)

(* C10: the delete request, failed or not, is followed by the listing and
   gives no error; when the listing is read, the list returned is the list
   passed in where every Deletable branch absent from the listing is Deleted
   and every Deletable branch still listed stays Deletable. *)
C10_DeleteBranches ==
    [][/\ (pc = "idle" /\ call'.name = "DeleteBranches")
            => /\ outcome' # "error"
               /\ pc' = "GetBranchNames.after"
               /\ branches' = returned
       /\ (pc = "GetBranchNames.after" /\ ~call'.failed)
            => /\ outcome' = "ok"
               /\ Len(returned') = Len(branches)
               /\ \A i \in 1..Len(branches) :
                     returned'[i] =
                        IF branches[i].State # Deletable THEN branches[i]
                        ELSE [branches[i] EXCEPT !.State =
                                IF branches[i].Name \in Range(call'.output)
                                THEN Deletable ELSE Deleted]]_vars

C10_Witness ==
    /\ pc = "idle" /\ outcome = "ok" /\ call.name = "GetBranchNames"
    /\ \E b \in Range(returned) :
          b.State = Deleted /\ b.Name \notin Range(call.output)
    /\ \E b \in Range(returned) :
          b.State = Deletable /\ b.Name \in Range(call.output)

----------------------------------------------------------------------------
(* DeleteBranches with nothing to delete *)

NoneDeletable(bs) == \A i \in DOMAIN bs : bs[i].State # Deletable

(* C11: when the list the caller holds has no Deletable branch, DeleteBranches
   returns that list unchanged and makes no connector call: no delete request
   and no reading of the branch listing. *)
C11_NothingToDelete ==
    [][(pc = "idle" /\ outcome = "ok" /\ NoneDeletable(returned))
        => /\ returned' = returned
           /\ outcome' = "ok"
           /\ pc' = "idle"
           /\ call' = NoCall]_vars

C11_Witness ==
    /\ pc = "idle" /\ outcome = "ok"
    /\ call = NoCall
    /\ Len(returned) >= 2
    /\ NoneDeletable(returned)
    /\ \E b \in Range(returned) : b.State = NotDeletable /\ HasOpen(b)

----------------------------------------------------------------------------
(* The states of a branch over GetBranches and the calls of DeleteBranches *)

(* The list that holds the verdicts after a step of GetBranches *)
VerdictsAfter == IF pc' = "CheckoutBranch" THEN branches' ELSE returned'

StateOf(bs, name) == bs[CHOOSE i \in DOMAIN bs : bs[i].Name = name].State

(* C12: over GetBranches and the calls of DeleteBranches that follow, the
   State of a branch is Unknown until the classification, which gives it
   NotDeletable or Deletable; the switch keeps it; afterwards a NotDeletable
   or Deleted branch keeps its State, and a Deletable branch stays Deletable
   or becomes Deleted, the latter only in a DeleteBranches call that asked
   for its deletion and did not find it in the listing read afterwards. *)
C12_MonotonicStates ==
    /\ [](pc \notin {"CheckoutBranch", "idle", "GetBranchNames.after", "exit"}
            => \A b \in Range(branches) \cup Range(results) : b.State = Unknown)
    /\ [][/\ (pc = "GetUncommittedChanges" /\ outcome' # "error")
               => /\ \A b \in Range(VerdictsAfter) :
                        b.State \in {NotDeletable, Deletable}
                  /\ \A b \in Range(branches) :
                        branchNameExists(b.Name, VerdictsAfter)
          /\ (pc = "CheckoutBranch" /\ outcome' # "error")
               => \A b \in Range(branches) :
                     /\ branchNameExists(b.Name, returned')
                     /\ StateOf(returned', b.Name) = b.State
          /\ (pc \in {"idle", "GetBranchNames.after"} /\ outcome' # "error")
               => /\ Len(returned') = Len(returned)
                  /\ \A i \in DOMAIN returned :
                        /\ returned'[i].Name = returned[i].Name
                        /\ \/ returned'[i].State = returned[i].State
                           \/ /\ returned[i].State = Deletable
                              /\ returned'[i].State = Deleted
                              /\ call.name = "DeleteBranches"
                              /\ returned[i].Name \in Range(call.args)
                              /\ call'.name = "GetBranchNames"
                              /\ returned[i].Name \notin Range(call'.output)]_vars

C12_Witness ==
    /\ pc = "idle" /\ outcome = "ok" /\ call.name = "GetBranchNames"
    /\ \E b \in Range(returned) : b.State = Deleted
    /\ \E b \in Range(returned) :
          b.State = NotDeletable /\ b.Name \notin Range(call.output)

----------------------------------------------------------------------------
(* The fail-safe switch *)

(* The verdicts checkDeletion gives in the step that reads the changes *)
VerdictsNow == checkDeletion(branches, uncommittedChanges')

HeadOnDefaultOnly(bs) ==
    /\ branchNameExists(defaultBranchName, bs)
    /\ \A i \in DOMAIN bs : bs[i].Head <=> bs[i].Name = defaultBranchName

(* C13: when the checked-out branch is classified Deletable, the list
   returned has Head = TRUE on the default branch and on no other branch,
   with and without dry-run; with dry-run no checkout is requested, without
   it the checkout is requested before the list is returned. *)
C13_HeadMovesToDefault ==
    /\ [](dryRun => pc # "CheckoutBranch" /\ call.name # "CheckoutBranch")
    /\ [][/\ (pc = "GetUncommittedChanges" /\ outcome' # "error"
                /\ needsCheckout(VerdictsNow))
               => IF dryRun
                  THEN pc' = "idle" /\ HeadOnDefaultOnly(returned')
                  ELSE pc' = "CheckoutBranch" /\ returned' = <<>>
          /\ (pc = "CheckoutBranch" /\ outcome' # "error")
               => /\ call' = Call("CheckoutBranch", <<defaultBranchName>>, FALSE)
                  /\ HeadOnDefaultOnly(returned')]_vars

C13_Witness ==
    /\ pc = "idle" /\ outcome = "ok"
    /\ ~dryRun /\ call = Call("CheckoutBranch", <<"main">>, FALSE)
    /\ HeadOnDefaultOnly(returned)
    /\ \E b \in Range(returned) : b.State = Deletable /\ ~b.Head
    /\ \E b \in Range(returned) : b.Name = "main" /\ b.IsMerged

(* C14: when the checkout of the default branch fails, GetBranches returns
   an error and no list: neither the verdicts already computed nor a list
   relabelled in part. *)
C14_CheckoutFailure ==
    (call.name = "CheckoutBranch" /\ call.failed)
        => /\ pc = "exit" /\ outcome = "error"
           /\ returned = <<>> /\ branches = <<>>

C14_Witness ==
    /\ call = Call("CheckoutBranch", <<"main">>, TRUE)
    /\ pc = "exit" /\ outcome = "error" /\ returned = <<>>
    /\ ~dryRun

(* The list the switch works on, in the step that runs it *)
SwitchInput == IF pc = "CheckoutBranch" THEN branches ELSE VerdictsNow

SwitchRuns ==
    /\ outcome' = "ok"
    /\ \/ pc = "CheckoutBranch"
       \/ pc = "GetUncommittedChanges" /\ dryRun /\ needsCheckout(VerdictsNow)

Entries(bs, name) == {i \in DOMAIN bs : bs[i].Name = name}

(* C15: when the switch runs and the default branch is absent from the
   loaded list, the list returned has exactly one entry more, for the default
   branch, with Head = TRUE and State NotDeletable, and every loaded branch
   is kept with all its fields but Head; when the default branch is present,
   no entry is added. *)
C15_DefaultBranchEntry ==
    [][SwitchRuns =>
        LET loaded == SwitchInput
            absent == ~branchNameExists(defaultBranchName, loaded)
        IN  /\ Len(returned') = Len(loaded) + (IF absent THEN 1 ELSE 0)
            /\ Cardinality(Entries(returned', defaultBranchName)) = 1
            /\ absent =>
                  \A i \in Entries(returned', defaultBranchName) :
                     returned'[i] = [NewBranch EXCEPT !.Name = defaultBranchName,
                                                     !.Head = TRUE,
                                                     !.State = NotDeletable]
            /\ \A j \in DOMAIN loaded :
                  \E i \in DOMAIN returned' :
                     returned'[i] = [loaded[j] EXCEPT
                                        !.Head = (loaded[j].Name = defaultBranchName)]]_vars

C15_Witness ==
    /\ pc = "idle" /\ outcome = "ok"
    /\ Len(returned) = 3
    /\ \E b \in Range(returned) :
          b.Name = "main" /\ b.Head /\ ~b.IsMerged /\ b.State = NotDeletable
    /\ \E b \in Range(returned) : b.State = Deletable /\ ~b.Head

----------------------------------------------------------------------------
(* Head and names in the list returned *)

Heads(bs) == {i \in DOMAIN bs : bs[i].Head}

UniqueNames(bs) == \A i, j \in DOMAIN bs : bs[i].Name = bs[j].Name => i = j

ReturnedByGetBranches ==
    /\ pc = "idle" /\ outcome = "ok"
    /\ call.name \in {"GetUncommittedChanges", "CheckoutBranch"}

(* C16, as amended: in every list returned by a successful GetBranches the
   names are unique and, unless the list is empty, exactly one branch has
   Head = TRUE; the list is empty, with no such branch, when the listing of
   the branches was empty. *)
C16_OneHeadUnlessEmpty ==
    ReturnedByGetBranches =>
        /\ UniqueNames(returned)
        /\ Cardinality(Heads(returned)) = IF returned = <<>> THEN 0 ELSE 1

(* C16 as stated: exactly one branch with Head = TRUE in every list *)
C16_ExactlyOneHead ==
    ReturnedByGetBranches =>
        /\ UniqueNames(returned)
        /\ Cardinality(Heads(returned)) = 1

C16_Witness ==
    /\ ReturnedByGetBranches
    /\ call.name = "CheckoutBranch"
    /\ Len(returned) = 2
    /\ Cardinality(Heads(returned)) = 1
    /\ \E b \in Range(returned) : b.Name = "main" /\ b.Head /\ b.IsProtected

----------------------------------------------------------------------------
(* Pull requests named by the merge config *)

(* A pull request is taken by its number: two fetched records of one number
   are records of the same pull request *)
Attached(b, pr) ==
    \E k \in 1..Len(b.PullRequests) :
        /\ b.PullRequests[k].Number = pr.Number
        /\ b.PullRequests[k].Name = pr.Name

(* C17: after applyPullRequest a fetched pull request whose number is the
   refs/pull/<n> number of the merge config of some branch is attached only
   to branches whose config names that number, not to another branch even
   when the name of that branch is the head name of the pull request; a
   pull request whose number no config names is attached to the branch named
   like its head, and to no branch of another name. *)
C17_ExplicitNumberWins ==
    \A i \in Matched : \A k \in DOMAIN prs :
        LET b == branches[i]
            pr == prs[k]
        IN  IF prNumberExists(prNumbers, pr.Number)
            THEN Attached(b, pr) => MapGet(prNumbers, b.Name) = pr.Number
            ELSE Attached(b, pr) <=> b.Name = pr.Name

C17_Witness ==
    /\ pc = "GetUncommittedChanges"
    /\ \E i \in DOMAIN branches : \E j \in DOMAIN branches \ {i} :
        \E k \in DOMAIN prs : \E l \in DOMAIN prs \ {k} :
          /\ prs[k].Name = branches[i].Name /\ prs[k].Number = 1
          /\ MapGet(prNumbers, branches[j].Name) = 1
          /\ MapGet(prNumbers, branches[i].Name) = 0
          /\ Attached(branches[j], prs[k]) /\ ~Attached(branches[i], prs[k])
          /\ prs[l].Number = 2 /\ prs[l].Name = branches[i].Name
          /\ Attached(branches[i], prs[l])

----------------------------------------------------------------------------
(* trimBranch *)

(* A step that looks up the names of a commit and gets them *)
Lookup ==
    /\ pc = "GetAssociatedRefNames"
    /\ call'.name = "GetAssociatedRefNames" /\ ~call'.failed

NamesFound == Range(extractBranchNames(call'.output))

(* The walk goes on to the next commit of the same branch *)
WalkGoesOn ==
    /\ pc' = "GetAssociatedRefNames"
    /\ curBranch' = curBranch
    /\ oids' = oids

(* The walk is made only for a branch without remote head and not merged,
   not yet among the results, over the log read for it, one commit after
   the other *)
WalkInvariant ==
    pc = "GetAssociatedRefNames" =>
        /\ curBranch.RemoteHeadOid = "" /\ ~curBranch.IsMerged
        /\ ~branchNameExists(curBranch.Name, results)
        /\ Len(trimmed) < Len(oids)
        /\ trimmed = SubSeq(oids, 1, Len(trimmed))

(* C18: for a branch without remote head and not merged, when a name found
   for the first commit of the log is the default branch, the branch gets
   no commits and no further lookup is made for it. *)
C18_TipOnDefaultBranch ==
    /\ []WalkInvariant
    /\ [][(Lookup /\ Len(trimmed) = 0 /\ defaultBranchName \in NamesFound)
            => /\ ~WalkGoesOn
               /\ AppendedAfterLog.Name = curBranch.Name
               /\ AppendedAfterLog.Commits = <<>>]_vars

C18_Witness ==
    /\ call.name = "GetAssociatedRefNames"
    /\ call.args = <<"b8a2645">>
    /\ remoteRef("main") \in Range(call.output)
    /\ \E b \in Range(branches) \cup Range(results) :
          /\ b.Name = "issue1" /\ b.Commits = <<>>
          /\ b.RemoteHeadOid = "" /\ ~b.IsMerged
    /\ pc # "GetAssociatedRefNames"

(* The names that do not stop the walk at commit i, counted from 0: the name
   of the branch and the names found for the first commit *)
Siblings ==
    IF Len(trimmed) = 0 THEN NamesFound \ {curBranch.Name} ELSE Range(childNames)

Foreign == NamesFound \ ({curBranch.Name} \cup Siblings) # {}

(* C19: for a branch without remote head and not merged whose first commit
   is not on the default branch, each lookup is for the next commit of the
   log; a commit with a name that is neither the name of the branch nor a
   name found for the first commit ends the walk with the commits before
   it, any other commit is kept, and the end of the log ends the walk with
   the whole log; names found for the first commit never end the walk. *)
C19_LongestPrefix ==
    /\ [][(pc = "GetLog" /\ pc' = "GetAssociatedRefNames")
            => oids' = call'.output /\ trimmed' = <<>> /\ childNames' = <<>>]_vars
    /\ [][(Lookup /\ ~(Len(trimmed) = 0 /\ defaultBranchName \in NamesFound))
            => /\ call'.args = <<oids[Len(trimmed) + 1]>>
               /\ (Len(trimmed) = 0 => ~Foreign)
               /\ IF Foreign
                  THEN /\ ~WalkGoesOn
                       /\ AppendedAfterLog.Name = curBranch.Name
                       /\ AppendedAfterLog.Commits = trimmed
                  ELSE IF Len(trimmed) + 1 = Len(oids)
                  THEN /\ ~WalkGoesOn
                       /\ AppendedAfterLog.Name = curBranch.Name
                       /\ AppendedAfterLog.Commits = oids
                  ELSE /\ WalkGoesOn
                       /\ trimmed' = SubSeq(oids, 1, Len(trimmed) + 1)
                       /\ Range(childNames') = Siblings]_vars

C19_Witness ==
    /\ call.name = "GetAssociatedRefNames"
    /\ call.args = <<"6ebe3d3">>
    /\ remoteRef("main") \in Range(call.output)
    /\ pc # "GetAssociatedRefNames"
    /\ \E b \in Range(branches) \cup Range(results) :
          /\ b.Name = "issue1" /\ b.Commits = <<"a97e963">>
          /\ b.RemoteHeadOid = "" /\ ~b.IsMerged

----------------------------------------------------------------------------
(* The empty log and the detached head *)

WalkCalls ==
    {"GetRemoteHeadOid", "GetConfig.remote", "GetLsRemoteHeadOid", "GetLog"}

(* C20: an empty log gives the branch no commits; for a detached head no
   remote head, log or name lookup is made, it has no commits and it is
   classified NotDeletable. *)
C20_EmptyLogAndDetached ==
    /\ [](/\ pc \in WalkCalls \cup {"GetAssociatedRefNames"} => ~IsDetached(curBranch)
          /\ call.name \in WalkCalls => call.args # <<DetachedName>>
          /\ \A b \in AllBranches : IsDetached(b) => b.Commits = <<>>
          /\ \A b \in Classified : IsDetached(b) => b.State = NotDeletable)
    /\ [][(pc = "GetLog" /\ call'.name = "GetLog" /\ ~call'.failed
            /\ call'.output = <<>>)
          => /\ pc' # "GetAssociatedRefNames"
             /\ AppendedAfterLog.Name = curBranch.Name
             /\ AppendedAfterLog.Commits = <<>>]_vars

C20_Witness ==
    /\ pc = "idle" /\ outcome = "ok" /\ call.name = "GetUncommittedChanges"
    /\ \E b \in Range(returned) :
          IsDetached(b) /\ b.Head /\ b.Commits = <<>> /\ b.State = NotDeletable
    /\ \E b \in Range(returned) :
          /\ b.Name = "issue1" /\ b.RemoteHeadOid # "" /\ b.Commits = <<>>
          /\ b.State = NotDeletable

----------------------------------------------------------------------------
(* The blocks of the pull request search *)

Batched == pc \in {"GetPullRequests", "GetConfig.merge", "GetUncommittedChanges"}

HasOid(b) == b.RemoteHeadOid # "" \/ Len(b.Commits) > 0

OidOf(b) == IF b.RemoteHeadOid = "" THEN b.Commits[Len(b.Commits)]
            ELSE b.RemoteHeadOid

RECURSIVE Flatten(_)
Flatten(blocks) ==
    IF blocks = <<>> THEN <<>> ELSE Head(blocks) \o Flatten(Tail(blocks))

FilterOids(blocks) == [k \in 1..Len(Flatten(blocks)) |-> Flatten(blocks)[k].oid]

BranchOids(bs) ==
    LET with == SelectSeq(bs, HasOid)
    IN  [k \in 1..Len(with) |-> OidOf(with[k])]

(* C21: every block of the hash batching is at most 256 characters long and
   none is empty; the blocks hold one filter for each branch with a commit id,
   in order; a block is closed exactly when the next filter with its separator
   would take it past 256 characters. *)
C21_BlocksWithinLimit ==
    Batched =>
        /\ \A k \in DOMAIN queries :
              queries[k] # <<>> /\ BlockLen(queries[k]) <= QueryLimit
        /\ FilterOids(queries) = BranchOids(branches)
        /\ \A k \in 1..(Len(queries) - 1) :
              BlockLen(queries[k]) + FilterLen(queries[k + 1][1]) > QueryLimit

C21_Witness ==
    /\ pc = "GetPullRequests" /\ call.name = "GetLog"
    /\ Len(queries) = 2 /\ Len(queries[1]) = 5
    /\ ~HasOid(branches[Len(branches)])
    /\ queries[2][Len(queries[2])].separator = <<" ">>

----------------------------------------------------------------------------
(* The order of the pull requests of a branch *)

Ascending(pullRequests) ==
    \A i, j \in DOMAIN pullRequests :
        i < j => pullRequests[i].Number < pullRequests[j].Number

(* C22: the pull requests of every branch are in ascending order of their
   numbers, in whatever order the search returned them. *)
C22_AscendingNumbers == \A b \in AllBranches : Ascending(b.PullRequests)

C22_Witness ==
    /\ pc = "GetUncommittedChanges" /\ call.name = "GetConfig.merge"
    /\ Len(prs) = 2 /\ prs[1].Number > prs[2].Number
    /\ \E b \in Range(branches) :
          Len(b.PullRequests) = 2 /\ b.PullRequests = <<prs[2], prs[1]>>

----------------------------------------------------------------------------
(* Cancellation: from the cancelled call on every connector call fails, so
   the last call an operation makes is a failed one *)

(* C23: a step whose connector call fails never returns a list: either the
   operation ends with an error and no list, or the failure is passed over,
   the list the caller holds is left as it is and the operation goes on to a
   further connector call.  So an operation cancelled at any of its calls,
   those whose failure is passed over included, ends with an error. *)
C23_CancelledNeverReturnsList ==
    [][call'.failed =>
          /\ outcome' # "ok"
          /\ pc' # "idle"
          /\ IF pc' = "exit"
             THEN outcome' = "error" /\ returned' = <<>>
             ELSE returned' = returned]_vars

C23_Witness ==
    /\ pc = "GetBranchNames.after"
    /\ call.name = "DeleteBranches" /\ call.failed
    /\ outcome = "none"
    /\ \E b \in Range(returned) : b.State = Deletable

----------------------------------------------------------------------------
(* The verdict of getDeleteStatus in full *)

MeetsAll(b, changes) ==
    /\ ~b.IsProtected
    /\ ~(b.Head /\ HasTracked(changes))
    /\ Len(b.PullRequests) >= 1
    /\ ~HasOpen(b)
    /\ b.Commits # <<>> /\ HasMergedWith(b, b.Commits[1])

(* C24: in the classifying step a branch becomes Deletable exactly when it is
   not protected, it is not the checked-out branch with a tracked change, it has
   a pull request, none of its pull requests is Open and one of them is fully
   merged; in every other case it becomes NotDeletable. *)
C24_DeletableExactlyWhen ==
    [][(pc = "GetUncommittedChanges" /\ outcome' # "error") =>
        \A i \in 1..Len(branches) :
            StateAfter(branches[i].Name) =
                IF MeetsAll(branches[i], uncommittedChanges')
                THEN Deletable ELSE NotDeletable]_vars

C24_Witness ==
    /\ pc = "CheckoutBranch" /\ call.name = "GetUncommittedChanges"
    /\ uncommittedChanges # <<>>
    /\ \E b \in Range(branches) :
          /\ b.State = Deletable /\ b.Head
          /\ Len(b.PullRequests) = 2
          /\ b.PullRequests[1].State = Closed
          /\ MeetsAll(b, uncommittedChanges)

----------------------------------------------------------------------------
(* When the checkout is requested *)

HeadIsDeletable(bs) == \E b \in Range(bs) : b.Head /\ b.State = Deletable

SameHeads(before, after) ==
    /\ Len(after) = Len(before)
    /\ \A i \in DOMAIN before : \E j \in DOMAIN after :
          after[j].Name = before[i].Name /\ after[j].Head = before[i].Head

(* C25: the checkout is requested only when the checked-out branch is
   Deletable and dry-run is off, only after every branch is classified, only
   for the default branch and once, the operation ending with it.  When the
   checked-out branch is not Deletable the list is returned without a
   checkout, with no entry added and with every Head as it was loaded. *)
C25_CheckoutOnlyWhenNeeded ==
    [][/\ call'.name = "CheckoutBranch"
            => /\ pc = "CheckoutBranch" /\ call.name = "GetUncommittedChanges"
               /\ ~dryRun
               /\ HeadIsDeletable(branches)
               /\ \A b \in Range(branches) : b.State \in {Deletable, NotDeletable}
               /\ call'.args = <<defaultBranchName>>
               /\ pc' \in {"idle", "exit"}
       /\ (pc = "GetUncommittedChanges" /\ outcome' # "error"
             /\ ~HeadIsDeletable(VerdictsNow))
            => /\ pc' = "idle" /\ call'.name = "GetUncommittedChanges"
               /\ SameHeads(branches, returned')]_vars

C25_Witness ==
    /\ pc = "idle" /\ outcome = "ok" /\ ~dryRun
    /\ call.name = "GetUncommittedChanges"
    /\ Len(returned) = 1
    /\ \E b \in Range(returned) : b.Name = "issue1" /\ b.Head /\ b.State = NotDeletable

----------------------------------------------------------------------------
(* The calls of DeleteBranches *)

DeletableNames(bs) == {b.Name : b \in {x \in Range(bs) : x.State = Deletable}}

(* C26: DeleteBranches on a list with a Deletable branch sends one delete
   request, which names the Deletable branches and no other, and reads the
   listing once, after the request; the operation ends with that reading. *)
C26_OneRequestThenListing ==
    [][/\ (pc = "idle" /\ outcome = "ok" /\ ~NoneDeletable(returned))
            => /\ call'.name = "DeleteBranches"
               /\ Range(call'.args) = DeletableNames(returned)
               /\ Len(call'.args) = Cardinality(DeletableNames(returned))
               /\ pc' = "GetBranchNames.after"
       /\ call'.name = "DeleteBranches" => pc = "idle"
       /\ pc = "GetBranchNames.after"
            => /\ call.name = "DeleteBranches"
               /\ call'.name = "GetBranchNames"
               /\ pc' \in {"idle", "exit"}]_vars

C26_Witness ==
    /\ pc = "GetBranchNames.after"
    /\ call.name = "DeleteBranches" /\ call.args = <<"issue1", "issue2">>
    /\ \E b \in Range(branches) : b.State = NotDeletable

----------------------------------------------------------------------------
(* The commit evidence, from the log to the verdict *)

IsPrefix(s, t) == Len(s) <= Len(t) /\ s = SubSeq(t, 1, Len(s))

AfterCommits ==
    pc \in {"GetPullRequests", "GetConfig.merge", "GetUncommittedChanges",
            "CheckoutBranch"}

KeepsCommits(b) ==
    \E c \in Range(branches') \cup Range(returned') :
        c.Name = b.Name /\ c.Commits = b.Commits /\ c.RemoteHeadOid = b.RemoteHeadOid

(* C27: the commits of a branch are a prefix of its log, newest first, and
   stay as they are up to the list returned; a branch is Deletable only if it
   has commits and the first of them, the newest commit of its log, is among
   the commits of a Merged pull request attached to it, whatever its remote
   head. *)
C27_TipInMergedPullRequest ==
    /\ [](\A b \in Classified :
            b.State = Deletable => b.Commits # <<>> /\ HasMergedWith(b, b.Commits[1]))
    /\ [][/\ (pc = "GetLog" /\ ~call'.failed /\ pc' # "GetAssociatedRefNames")
               => IsPrefix(AppendedAfterLog.Commits, call'.output)
          /\ (pc = "GetLog" /\ pc' = "GetAssociatedRefNames") => oids' = call'.output
          /\ (pc = "GetAssociatedRefNames" /\ ~call'.failed)
               => IF pc' = "GetAssociatedRefNames"
                  THEN oids' = oids /\ IsPrefix(trimmed', oids)
                  ELSE IsPrefix(AppendedAfterLog.Commits, oids)
          /\ (AfterCommits /\ outcome' # "error")
               => \A b \in Range(branches) : KeepsCommits(b)]_vars

C27_Witness ==
    /\ pc = "idle" /\ outcome = "ok"
    /\ ~HasTracked(uncommittedChanges)
    /\ \E b \in Range(returned) :
          /\ b.RemoteHeadOid # "" /\ b.Commits # <<>>
          /\ b.RemoteHeadOid # b.Commits[1]
          /\ ~b.IsProtected /\ ~HasOpen(b)
          /\ HasMergedWith(b, b.RemoteHeadOid)
          /\ b.State = NotDeletable

----------------------------------------------------------------------------
(* An Open pull request among the fetched ones *)

(* The fetched pull request matches the branch: by the number the merge
   config of the branch names, or by its head name when no config names its
   number *)
MatchesBranch(pr, b) ==
    \/ MapGet(prNumbers, b.Name) = pr.Number
    \/ pr.Name = b.Name /\ ~prNumberExists(prNumbers, pr.Number)

(* C28: in the classifying step, a branch matched by a fetched Open pull
   request does not become Deletable, also when another fetched pull request
   has the same number and is Merged. *)
C28_OpenNeverDeletable ==
    [][(pc = "GetUncommittedChanges" /\ outcome' # "error") =>
        \A i \in 1..Len(branches) :
            (\E k \in 1..Len(prs) :
                prs[k].State = Open /\ MatchesBranch(prs[k], branches[i]))
              => StateAfter(branches[i].Name) # Deletable]_vars

----------------------------------------------------------------------------
(* Outputs the parsing does not expect *)

(* C30: whatever the connector answers, outputs that are empty or not of the
   expected form included, GetRemote and GetBranches end with a result or with
   an error, never with a run-time panic. *)
C30_NeverPanics == outcome # "panic"

----------------------------------------------------------------------------
(* What DeleteBranches leaves as it is *)

(* The list DeleteBranches was called with, in the step that returns *)
DeleteInput == IF pc = "idle" THEN returned ELSE branches

DeleteReturns ==
    /\ \/ pc = "idle" /\ outcome = "ok"
       \/ pc = "GetBranchNames.after"
    /\ pc' = "idle" /\ outcome' = "ok"

(* C29: the list DeleteBranches returns has the length and the order of its
   input, every branch with all its fields but State as in the input, and State
   changed only where the input had Deletable; up to the return the list the
   caller holds is as it was; when the listing read after the delete request
   fails, an error is returned and no list. *)
C29_OnlyStateChanges ==
    [][/\ DeleteReturns
            => /\ Len(returned') = Len(DeleteInput)
               /\ \A i \in DOMAIN DeleteInput :
                     /\ [returned'[i] EXCEPT !.State = DeleteInput[i].State]
                            = DeleteInput[i]
                     /\ returned'[i].State # DeleteInput[i].State
                            => DeleteInput[i].State = Deletable
       /\ (pc = "idle" /\ pc' = "GetBranchNames.after")
            => returned' = returned /\ branches' = returned
       /\ (pc = "GetBranchNames.after" /\ call'.failed)
            => pc' = "exit" /\ outcome' = "error" /\ returned' = <<>>]_vars

C29_Witness ==
    /\ pc = "idle" /\ outcome = "ok" /\ call.name = "GetBranchNames"
    /\ Len(returned) = 3
    /\ \E b \in Range(returned) : b.State = Deleted /\ b.PullRequests # <<>>
    /\ \E b \in Range(returned) :
          b.State = NotDeletable /\ b.Name \notin Range(call.output)

====
